---- MODULE Spec2Model ----
(***************************************************************************)
(* Model of the ds toolkit (EeroMutka/ds): the open-addressing hash table  *)
(* (DS_Set<KEY>, DS_Map<KEY, VALUE>) of ds.h and the block-chained bump    *)
(* allocator (DS_Arena) of ds.cpp.                                         *)
(*                                                                         *)
(* KEY is instantiated as uint32_t, so the cast (uint32_t)key is the key   *)
(* itself and KEY{} is 0.  VALUE is instantiated as uint8_t.  The build    *)
(* modelled is the default one (DS_NO_DEBUG_CHECKS not defined).           *)
(***************************************************************************)
EXTENDS Integers, Sequences, FiniteSets, TLC

VARIABLES
    subject,    \* which structure this run exercises: "Set", "Map" or "Arena"
    table,      \* the DS_Set / DS_Map object and its allocator:
                \*   [Data, NumElems, NumSlots, Allocator, Addr, Live, BadFree]
    abs,        \* the abstract table: [keys : the keys added and not removed since,
                \*   val : the value last stored for each key that has one]
    last,       \* the last call made on the table: [op, ret, moved], ret being what it
                \*   returned and moved the number of other keys it left in another slot
    arena,      \* the DS_Arena object, the headers of its blocks and its backing allocator
    allocs,     \* the live pushes, oldest first: [addr, size, alignment, block]
    marks,      \* the marks the caller holds, oldest first: [mark, n, pure]
    initial,    \* the initial_block the arena was Init-ed with (NULL for none)
    alast       \* the last call made on the arena: [op, freed, got]

tablevars == <<table, abs, last>>
arenavars == <<arena, allocs, marks, initial, alast>>
vars == <<subject, table, abs, last, arena, allocs, marks, initial, alast>>

----------------------------------------------------------------------------
(* Bounds of the model *)

MaxKey == 10        \* the keys given to a set are 1..MaxKey
MaxElems == 6       \* Add is not called on a set that already holds this many keys
MaxMapKey == 5      \* the keys given to a map are the first MaxMapKey odd numbers
MaxMapElems == 3    \* Add/Set is not called on a map that already holds this many keys
MaxVal == 2         \* values stored by Set are 1..MaxVal
MaxSlotsLog == 3    \* explicit Resize / Init ask for at most 2^MaxSlotsLog slots
MaxLive == 3        \* PushUninitialized is not called while this many pushes are live
MaxMarks == 2       \* the caller holds at most this many marks
MaxArrays == 2      \* slot arrays live at once beyond which Resize is not called
MaxBlocks == 3      \* the backing allocator has at most this many allocations live
HeapChoices == 1    \* the backing allocator picks among this many lowest free addresses

SetKeys == 1..MaxKey
MapKeys == {2 * i - 1 : i \in 1..MaxMapKey}
Keys == SetKeys \cup MapKeys
Values == 1..MaxVal

----------------------------------------------------------------------------
(* Constants of the program *)

EmptyKey == 0       \* KEY{} : the default-constructed key marks an empty slot
ZeroValue == 0      \* VALUE{} as written by "Data[i] = {}" in Resize
Poison == 204       \* 0xCC, the byte memset over a removed map slot
InitialSlots == 8   \* the slot count Add grows an empty table to

NULL == 0
HeaderSize == 16    \* sizeof(DS_ArenaBlockHeader): uint32_t, bool, padding, pointer

----------------------------------------------------------------------------
(* Bit operations on non-negative integers *)

RECURSIVE BitAnd(_, _)
BitAnd(a, b) ==
    IF a = 0 \/ b = 0 THEN 0
    ELSE (a % 2) * (b % 2) + 2 * BitAnd(a \div 2, b \div 2)

IsPow2OrZero(n) == BitAnd(n, n - 1) = 0 \/ n = 0

\* The assertions of Resize without the one on the power of two.
ResizeAssert_NoPow2(t, num_slots) == num_slots >= t.NumElems

\* The two DS_ASSERTs at the head of Resize: TRUE when both pass.
ResizeAssert(t, num_slots) ==
    /\ BitAnd(num_slots, num_slots - 1) = 0
    /\ num_slots >= t.NumElems

\* The assertion on the key compiled out, as DS_NO_DEBUG_CHECKS does.
KeyAssert_Off(key) == TRUE

\* DS_ASSERT(!(key == KEY{})) at the head of Add: TRUE when it passes.
KeyAssert(key) == ~(key = EmptyKey)

----------------------------------------------------------------------------
(* The allocator of a table.  Init is given an allocator of the caller or
   none, and then takes DS_HeapAllocator(); the field Allocator of a table
   record says which ("Caller", "Heap").  The heap allocator is followed: the
   slot array is in Data and its address, the pointer Data of the object, in
   Addr; Live is the set of addresses of the arrays allocated and not freed,
   BadFree the set of non-null addresses passed to MemFree that were not live.
   What an allocator of the caller does with the calls is not followed. *)

\* Allocator->MemAlloc for an array of num_slots slots, assigned to Data:
\* DS_HeapAllocatorProc returns NULL for a size of 0 and otherwise an address
\* that is not in use (here: the lowest).
TableMemAlloc(t, num_slots) ==
    IF t.Allocator # "Heap" THEN t
    ELSE IF num_slots = 0 THEN [t EXCEPT !.Addr = NULL]
    ELSE LET x == CHOOSE x \in 1..(Cardinality(t.Live) + 1) :
                      x \notin t.Live /\ \A y \in 1..(x - 1) : y \in t.Live
         IN [t EXCEPT !.Addr = x, !.Live = @ \cup {x}]

\* Allocator->MemFree(data): _aligned_free, which ignores NULL.
TableMemFree(t, data) ==
    IF t.Allocator # "Heap" \/ data = NULL THEN t
    ELSE IF data \in t.Live THEN [t EXCEPT !.Live = @ \ {data}]
    ELSE [t EXCEPT !.BadFree = @ \cup {data}]

----------------------------------------------------------------------------
(* DS_Set<KEY> *)

RECURSIVE SetAdd(_, _), SetResize(_, _), SetAddProbe(_, _, _, _),
          SetResizeLoop(_, _, _, _)

\* The probe loop reporting a key it found as newly added.
SetAddProbe_AlwaysNew(t, key, mask, index) ==
    IF t.Data[index] = EmptyKey
    THEN [t |-> [t EXCEPT !.Data[index] = key, !.NumElems = @ + 1], added |-> TRUE]
    ELSE IF key = t.Data[index]
    THEN [t |-> t, added |-> TRUE]
    ELSE SetAddProbe(t, key, mask, BitAnd(index + 1, mask))

\* The probe loop storing a new key without NumElems += 1.
SetAddProbe_NoCount(t, key, mask, index) ==
    IF t.Data[index] = EmptyKey
    THEN [t |-> [t EXCEPT !.Data[index] = key], added |-> TRUE]
    ELSE IF key = t.Data[index]
    THEN [t |-> t, added |-> FALSE]
    ELSE SetAddProbe(t, key, mask, BitAnd(index + 1, mask))

\* The probe loop of DS_Set::Add.
SetAddProbe(t, key, mask, index) ==
    IF t.Data[index] = EmptyKey
    THEN [t |-> [t EXCEPT !.Data[index] = key, !.NumElems = @ + 1], added |-> TRUE]
    ELSE IF key = t.Data[index]
    THEN [t |-> t, added |-> FALSE]
    ELSE SetAddProbe(t, key, mask, BitAnd(index + 1, mask))

\* Add with the growth check made on NumElems instead of NumElems + 1.
SetAdd_LateGrowth(t, key) ==
    LET g == IF 100 * t.NumElems > 70 * t.NumSlots \/ t.NumSlots = 0
             THEN SetResize(t, IF t.NumSlots = 0 THEN InitialSlots ELSE t.NumSlots * 2)
             ELSE t
        mask == g.NumSlots - 1
    IN SetAddProbe(g, key, mask, BitAnd(key, mask))

\* Add leaving the table as it is, growth check included, when the key is present.
SetAdd_GrowOnlyIfAbsent(t, key) ==
    IF \E i \in DOMAIN t.Data : t.Data[i] = key
    THEN [t |-> t, added |-> FALSE]
    ELSE LET g == IF 100 * (t.NumElems + 1) > 70 * t.NumSlots
                  THEN SetResize(t, IF t.NumSlots = 0 THEN InitialSlots ELSE t.NumSlots * 2)
                  ELSE t
             mask == g.NumSlots - 1
         IN SetAddProbe(g, key, mask, BitAnd(key, mask))

\* Add growing the table only once every slot is taken.
SetAdd_GrowWhenFull(t, key) ==
    LET g == IF t.NumElems >= t.NumSlots
             THEN SetResize(t, IF t.NumSlots = 0 THEN InitialSlots ELSE t.NumSlots * 2)
             ELSE t
        mask == g.NumSlots - 1
    IN SetAddProbe(g, key, mask, BitAnd(key, mask))

\* DS_Set::Add: growth check, then probe.
SetAdd(t, key) ==
    LET g == IF 100 * (t.NumElems + 1) > 70 * t.NumSlots
             THEN SetResize(t, IF t.NumSlots = 0 THEN InitialSlots ELSE t.NumSlots * 2)
             ELSE t
        mask == g.NumSlots - 1
    IN SetAddProbe(g, key, mask, BitAnd(key, mask))

\* The re-insertion loop starting at the second slot of the old array.
SetResizeLoop_SkipFirst(t, old_data, old_capacity, i) ==
    IF i >= old_capacity THEN t
    ELSE LET elem == old_data[i]
         IN SetResizeLoop(IF elem # EmptyKey /\ i > 0 THEN SetAdd(t, elem).t ELSE t,
                          old_data, old_capacity, i + 1)

\* The re-insertion loop of DS_Set::Resize over the old array.
SetResizeLoop(t, old_data, old_capacity, i) ==
    IF i >= old_capacity THEN t
    ELSE LET elem == old_data[i]
         IN SetResizeLoop(IF elem # EmptyKey THEN SetAdd(t, elem).t ELSE t,
                          old_data, old_capacity, i + 1)

\* Resize without the MemFree of the old array.
SetResize_NoFree(t, num_slots) ==
    LET fresh == [TableMemAlloc(t, num_slots)
                     EXCEPT !.Data = [i \in 0..(num_slots - 1) |-> EmptyKey],
                            !.NumElems = 0, !.NumSlots = num_slots]
    IN IF num_slots > 0
       THEN SetResizeLoop(fresh, t.Data, t.NumSlots, 0)
       ELSE fresh

\* DS_Set::Resize.
SetResize(t, num_slots) ==
    LET fresh == [TableMemAlloc(t, num_slots)
                     EXCEPT !.Data = [i \in 0..(num_slots - 1) |-> EmptyKey],
                            !.NumElems = 0, !.NumSlots = num_slots]
    IN IF num_slots > 0
       THEN TableMemFree(SetResizeLoop(fresh, t.Data, t.NumSlots, 0), t.Addr)
       ELSE fresh

\* DS_Set::Init.
SetInit(allocator, initial_num_slots) ==
    LET t0 == [Data |-> [i \in {} |-> EmptyKey], NumElems |-> 0, NumSlots |-> 0,
               Allocator |-> allocator, Addr |-> NULL, Live |-> {}, BadFree |-> {}]
    IN IF initial_num_slots > 0 THEN SetResize(t0, initial_num_slots) ELSE t0

\* DS_Set::Deinit; the object is then overwritten with 0xCC and not used again.
SetDeinit(t) == TableMemFree(t, t.Addr)

RECURSIVE SetHasProbe(_, _, _, _)
\* The probe loop comparing the key before testing for the empty slot.
SetHasProbe_KeyFirst(t, key, mask, index) ==
    IF key = t.Data[index] THEN TRUE
    ELSE IF t.Data[index] = EmptyKey THEN FALSE
    ELSE SetHasProbe(t, key, mask, BitAnd(index + 1, mask))

\* The probe loop of DS_Set::Has.
SetHasProbe(t, key, mask, index) ==
    IF t.Data[index] = EmptyKey THEN FALSE
    ELSE IF key = t.Data[index] THEN TRUE
    ELSE SetHasProbe(t, key, mask, BitAnd(index + 1, mask))

\* DS_Set::Has.
SetHas(t, key) ==
    IF t.NumSlots = 0 THEN FALSE
    ELSE LET mask == t.NumSlots - 1
         IN SetHasProbe(t, key, mask, BitAnd(key, mask))

RECURSIVE SetRemoveShift(_, _, _)
\* Remove without the repair walk: the freed slot is simply left empty.
SetRemoveShift_NoRepair(t, mask, index) == t

\* The repair walk stopping after the first neighbour it re-inserts.
SetRemoveShift_OneStep(t, mask, index) ==
    LET idx == BitAnd(index + 1, mask)
    IN IF t.Data[idx] = EmptyKey THEN t
       ELSE LET temp == t.Data[idx]
                evicted == [t EXCEPT !.Data[idx] = EmptyKey, !.NumElems = @ - 1]
            IN SetAdd(evicted, temp).t

\* The repair walk ending at the first key that lies in its home slot.
SetRemoveShift_StopAtHome(t, mask, index) ==
    LET idx == BitAnd(index + 1, mask)
    IN IF t.Data[idx] = EmptyKey \/ BitAnd(t.Data[idx], mask) = idx THEN t
       ELSE LET temp == t.Data[idx]
                evicted == [t EXCEPT !.Data[idx] = EmptyKey, !.NumElems = @ - 1]
            IN SetRemoveShift(SetAdd(evicted, temp).t, mask, idx)

\* The repair walk evicting a key without NumElems -= 1.
SetRemoveShift_NoDecrement(t, mask, index) ==
    LET idx == BitAnd(index + 1, mask)
    IN IF t.Data[idx] = EmptyKey THEN t
       ELSE LET temp == t.Data[idx]
                evicted == [t EXCEPT !.Data[idx] = EmptyKey]
            IN SetRemoveShift(SetAdd(evicted, temp).t, mask, idx)

\* The backwards-shift loop of DS_Set::Remove: evict and re-add every key of
\* the run that follows the freed slot.  mask and index are the locals of
\* Remove, computed before any re-insertion.
SetRemoveShift(t, mask, index) ==
    LET idx == BitAnd(index + 1, mask)
    IN IF t.Data[idx] = EmptyKey THEN t
       ELSE LET temp == t.Data[idx]
                evicted == [t EXCEPT !.Data[idx] = EmptyKey, !.NumElems = @ - 1]
            IN SetRemoveShift(SetAdd(evicted, temp).t, mask, idx)

RECURSIVE SetRemoveProbe(_, _, _, _)
\* The probe loop emptying the slot of the key without NumElems--.
SetRemoveProbe_KeepCount(t, key, mask, index) ==
    IF t.Data[index] = EmptyKey
    THEN [t |-> t, removed |-> FALSE]
    ELSE IF key = t.Data[index]
    THEN [t |-> SetRemoveShift([t EXCEPT !.Data[index] = EmptyKey], mask, index),
          removed |-> TRUE]
    ELSE SetRemoveProbe(t, key, mask, BitAnd(index + 1, mask))

\* The probe loop of DS_Set::Remove.
SetRemoveProbe(t, key, mask, index) ==
    IF t.Data[index] = EmptyKey
    THEN [t |-> t, removed |-> FALSE]
    ELSE IF key = t.Data[index]
    THEN [t |-> SetRemoveShift([t EXCEPT !.Data[index] = EmptyKey, !.NumElems = @ - 1],
                               mask, index),
          removed |-> TRUE]
    ELSE SetRemoveProbe(t, key, mask, BitAnd(index + 1, mask))

\* DS_Set::Remove.
SetRemove(t, key) ==
    IF t.NumSlots = 0 THEN [t |-> t, removed |-> FALSE]
    ELSE LET mask == t.NumSlots - 1
         IN SetRemoveProbe(t, key, mask, BitAnd(key, mask))

----------------------------------------------------------------------------
(* DS_Map<KEY, VALUE> : a slot is a DS_MapSlot [Key, Value] *)

EmptySlot == [Key |-> EmptyKey, Value |-> ZeroValue]

RECURSIVE MapAdd(_, _), MapResize(_, _), MapAddProbe(_, _, _, _),
          MapResizeLoop(_, _, _, _)

\* The probe loop of DS_Map::Add.  index stands for the pointer *value, which
\* designates Data[index].Value of the array that is current on return.
MapAddProbe(t, key, mask, index) ==
    IF t.Data[index].Key = EmptyKey
    THEN [t |-> [t EXCEPT !.Data[index].Key = key, !.NumElems = @ + 1],
          added |-> TRUE, index |-> index]
    ELSE IF key = t.Data[index].Key
    THEN [t |-> t, added |-> FALSE, index |-> index]
    ELSE MapAddProbe(t, key, mask, BitAnd(index + 1, mask))

\* DS_Map::Add: growth check, then probe.
MapAdd(t, key) ==
    LET g == IF 100 * (t.NumElems + 1) > 70 * t.NumSlots
             THEN MapResize(t, IF t.NumSlots = 0 THEN InitialSlots ELSE t.NumSlots * 2)
             ELSE t
        mask == g.NumSlots - 1
    IN MapAddProbe(g, key, mask, BitAnd(key, mask))

\* A store through the value pointer returned by Add or FindPtr.
MapStore(t, index, value) == [t EXCEPT !.Data[index].Value = value]

\* The re-insertion loop without the copy of the old value into the new slot.
MapResizeLoop_DropValue(t, old_data, old_capacity, i) ==
    IF i >= old_capacity THEN t
    ELSE LET elem == old_data[i]
             r == MapAdd(t, elem.Key)
         IN MapResizeLoop(IF elem.Key # EmptyKey THEN r.t ELSE t,
                          old_data, old_capacity, i + 1)

\* The re-insertion loop of DS_Map::Resize over the old array.
MapResizeLoop(t, old_data, old_capacity, i) ==
    IF i >= old_capacity THEN t
    ELSE LET elem == old_data[i]
             r == MapAdd(t, elem.Key)
         IN MapResizeLoop(IF elem.Key # EmptyKey THEN MapStore(r.t, r.index, elem.Value) ELSE t,
                          old_data, old_capacity, i + 1)

\* DS_Map::Resize.
MapResize(t, num_slots) ==
    LET fresh == [TableMemAlloc(t, num_slots)
                     EXCEPT !.Data = [i \in 0..(num_slots - 1) |-> EmptySlot],
                            !.NumElems = 0, !.NumSlots = num_slots]
    IN IF t.NumSlots > 0
       THEN TableMemFree(MapResizeLoop(fresh, t.Data, t.NumSlots, 0), t.Addr)
       ELSE fresh

\* DS_Map::Init.
MapInit(allocator, initial_num_slots) ==
    LET t0 == [Data |-> [i \in {} |-> EmptySlot], NumElems |-> 0, NumSlots |-> 0,
               Allocator |-> allocator, Addr |-> NULL, Live |-> {}, BadFree |-> {}]
    IN IF initial_num_slots > 0 THEN MapResize(t0, initial_num_slots) ELSE t0

\* DS_Map::Deinit; the object is then overwritten with 0xCC and not used again.
MapDeinit(t) == TableMemFree(t, t.Addr)

\* DS_Map::Set.
MapSet(t, key, value) ==
    LET r == MapAdd(t, key) IN MapStore(r.t, r.index, value)

RECURSIVE MapFindPtrProbe(_, _, _, _)
\* The probe loop of DS_Map::FindPtr; the result is the slot index, or -1 for
\* a NULL pointer.
MapFindPtrProbe(t, key, mask, index) ==
    IF t.Data[index].Key = EmptyKey THEN -1
    ELSE IF key = t.Data[index].Key THEN index
    ELSE MapFindPtrProbe(t, key, mask, BitAnd(index + 1, mask))

\* DS_Map::FindPtr.
MapFindPtr(t, key) ==
    IF t.NumSlots = 0 THEN -1
    ELSE LET mask == t.NumSlots - 1
         IN MapFindPtrProbe(t, key, mask, BitAnd(key, mask))

\* DS_Map::Find: found is the return value, value is what *value holds after
\* the call when it held `old` before.
MapFind(t, key, old) ==
    LET ptr == MapFindPtr(t, key)
    IN [found |-> ptr # -1, value |-> IF ptr # -1 THEN t.Data[ptr].Value ELSE old]

\* DS_Map::Has.
MapHas(t, key) == MapFindPtr(t, key) # -1

\* The slot as Remove leaves it: memset to 0xCC, then Key = KEY{}.
RemovedSlot == [Key |-> EmptyKey, Value |-> Poison]

RECURSIVE MapRemoveShift(_, _, _)
\* The backwards-shift loop of DS_Map::Remove.
MapRemoveShift(t, mask, index) ==
    LET idx == BitAnd(index + 1, mask)
    IN IF t.Data[idx].Key = EmptyKey THEN t
       ELSE LET temp == t.Data[idx]
                evicted == [t EXCEPT !.Data[idx] = RemovedSlot, !.NumElems = @ - 1]
                r == MapAdd(evicted, temp.Key)
            IN MapRemoveShift(MapStore(r.t, r.index, temp.Value), mask, idx)

RECURSIVE MapRemoveProbe(_, _, _, _)
\* The probe loop of DS_Map::Remove.
MapRemoveProbe(t, key, mask, index) ==
    IF t.Data[index].Key = EmptyKey
    THEN [t |-> t, removed |-> FALSE]
    ELSE IF key = t.Data[index].Key
    THEN [t |-> MapRemoveShift([t EXCEPT !.Data[index] = RemovedSlot, !.NumElems = @ - 1],
                               mask, index),
          removed |-> TRUE]
    ELSE MapRemoveProbe(t, key, mask, BitAnd(index + 1, mask))

\* DS_Map::Remove.
MapRemove(t, key) ==
    IF t.NumSlots = 0 THEN [t |-> t, removed |-> FALSE]
    ELSE LET mask == t.NumSlots - 1
         IN MapRemoveProbe(t, key, mask, BitAnd(key, mask))

----------------------------------------------------------------------------
(* DS_Arena.  Addresses are byte addresses.  The record `arena` holds the
   fields of the object (FirstBlock, Mark, BlockSize, BlockAlignment), the
   block headers that are in memory (Block: address -> header) and the state
   of the backing allocator (Live: address -> size of each allocation not yet
   freed, BadFree: the addresses passed to MemFree that were not live). *)

InitialBlockAddr == 64      \* where the caller's initial block lies, when it supplies one
HeapBase == 128             \* the backing allocator serves addresses from here up
HeapGranule == 32           \* ... at multiples of this
HeapSlot == 96               \* room the heap of the model has per block

HeapAddrs == {HeapBase + i * HeapGranule :
                 i \in 0..(((MaxBlocks + 1) * HeapSlot) \div HeapGranule - 1)}
HeapEnd == HeapBase + (MaxBlocks + 1) * HeapSlot

\* DS_AlignDownPow2, for p a power of two: x & ~(p - 1) clears the low bits of x.
AlignDownPow2(x, p) == x - (x % p)

\* DS_AlignUpPow2 without the rounding.
AlignUpPow2_NoRound(x, p) == x

\* DS_AlignUpPow2 with the rounding of DS_AlignDownPow2.
AlignUpPow2_Down(x, p) == AlignDownPow2(x, p)

\* DS_AlignUpPow2, for p a power of two: ((x + p - 1) & ~(p - 1)).
AlignUpPow2(x, p) == (x + p - 1) - ((x + p - 1) % p)

\* The bytes [addr, addr + size)
Bytes(addr, size) == addr..(addr + size - 1)

\* The addresses the backing allocator may return for MemAlloc(size, align):
\* aligned, and clear of every live allocation.
Fits(a, size, align) ==
    {x \in HeapAddrs :
        /\ x % align = 0
        /\ x + size <= HeapEnd
        /\ \A b \in DOMAIN a.Live : Bytes(x, size) \cap Bytes(b, a.Live[b]) = {}}

AllocChoices(a, size, align) ==
    LET fit == Fits(a, size, align)
    IN IF Cardinality(DOMAIN a.Live) >= MaxBlocks THEN {}
       ELSE {x \in fit : Cardinality({y \in fit : y < x}) < HeapChoices}

\* BackingAllocator->MemAlloc returning address x for `size` bytes.
MemAlloc(a, x, size) ==
    [a EXCEPT !.Live = [b \in (DOMAIN a.Live) \cup {x} |-> IF b = x THEN size ELSE a.Live[b]]]

\* BackingAllocator->MemFree(x): the allocation at x, and the header it holds,
\* are gone; a pointer that is no live allocation is recorded in BadFree.
MemFree(a, x) ==
    IF x \in DOMAIN a.Live
    THEN [a EXCEPT !.Live = [b \in (DOMAIN a.Live) \ {x} |-> a.Live[b]],
                   !.Block = [b \in (DOMAIN a.Block) \ {x} |-> a.Block[b]]]
    ELSE [a EXCEPT !.BadFree = @ \cup {x}]

\* DS_Arena::Init.  The assertion on initial_block is the guard of the caller.
ArenaInit(initial_block, block_size, block_alignment) ==
    [FirstBlock |-> initial_block,
     Mark |-> [Block |-> initial_block,
               Ptr |-> IF initial_block # NULL THEN initial_block + HeaderSize ELSE NULL],
     BlockSize |-> block_size,
     BlockAlignment |-> block_alignment,
     Block |-> IF initial_block # NULL
               THEN [b \in {initial_block} |->
                        [SizeIncludingHeader |-> block_size,
                         AllocatedFromBackingAllocator |-> FALSE,
                         Next |-> NULL]]
               ELSE [b \in {} |-> NULL],
     Live |-> [b \in {} |-> 0],
     BadFree |-> {},
     Alive |-> TRUE]

\* The first branch of PushUninitialized: does the request need a new block?
NeedsBlock(a, size, alignment) ==
    LET curr_block == a.Mark.Block
        result == AlignUpPow2(a.Mark.Ptr, alignment)
        remaining_space == IF curr_block # NULL
                           THEN a.Block[curr_block].SizeIncludingHeader - (result - curr_block)
                           ELSE 0
    IN size > remaining_space

\* The second branch comparing the size with the whole next block, header included.
ReusesNext_WholeBlock(a, size, alignment) ==
    LET curr_block == a.Mark.Block
    IN /\ curr_block # NULL
       /\ a.Block[curr_block].Next # NULL
       /\ size <= a.Block[a.Block[curr_block].Next].SizeIncludingHeader

\* The second branch never taken: a linked next block is not looked at.
ReusesNext_Never(a, size, alignment) == FALSE

\* The second branch: can the block linked after the current one take it?
ReusesNext(a, size, alignment) ==
    LET curr_block == a.Mark.Block
        result_offset == AlignUpPow2(HeaderSize, alignment)
    IN /\ curr_block # NULL
       /\ a.Block[curr_block].Next # NULL
       /\ size <= a.Block[a.Block[curr_block].Next].SizeIncludingHeader - result_offset

\* The size without the lower limit BlockSize.
NewBlockSize_NoLimit(a, size, alignment) == AlignUpPow2(HeaderSize, alignment) + size

\* The size PushUninitialized asks the backing allocator for.
NewBlockSize(a, size, alignment) ==
    LET new_block_size == AlignUpPow2(HeaderSize, alignment) + size
    IN IF a.BlockSize > new_block_size THEN a.BlockSize ELSE new_block_size

\* PushUninitialized writing NULL into the Next of a block it obtains.
PushUninitialized_DropNext(a, size, alignment, backing) ==
    LET curr_block == a.Mark.Block
        result == AlignUpPow2(a.Mark.Ptr, alignment)
    IN IF NeedsBlock(a, size, alignment)
       THEN LET result_offset == AlignUpPow2(HeaderSize, alignment)
                new_block_size == NewBlockSize(a, size, alignment)
                next_block == IF curr_block # NULL THEN a.Block[curr_block].Next ELSE NULL
                reuse == ReusesNext(a, size, alignment)
                new_block == IF reuse THEN next_block ELSE backing
                header == [SizeIncludingHeader |-> new_block_size,
                           AllocatedFromBackingAllocator |-> TRUE,
                           Next |-> NULL]
                got == MemAlloc(a, backing, new_block_size)
                written == [got EXCEPT !.Block =
                               [b \in (DOMAIN got.Block) \cup {backing} |->
                                   IF b = backing THEN header ELSE got.Block[b]]]
                linked == IF curr_block # NULL
                          THEN [written EXCEPT !.Block[curr_block].Next = backing]
                          ELSE [written EXCEPT !.FirstBlock = backing]
                a1 == IF reuse THEN a ELSE linked
            IN [a |-> [a1 EXCEPT !.Mark = [Block |-> new_block,
                                           Ptr |-> new_block + result_offset + size]],
                result |-> new_block + result_offset]
       ELSE [a |-> [a EXCEPT !.Mark.Ptr = result + size], result |-> result]

\* DS_Arena::PushUninitialized(size, alignment); `backing` is the address the
\* backing allocator returns if it is asked for a block.
PushUninitialized(a, size, alignment, backing) ==
    LET curr_block == a.Mark.Block
        result == AlignUpPow2(a.Mark.Ptr, alignment)
    IN IF NeedsBlock(a, size, alignment)
       THEN LET result_offset == AlignUpPow2(HeaderSize, alignment)
                new_block_size == NewBlockSize(a, size, alignment)
                next_block == IF curr_block # NULL THEN a.Block[curr_block].Next ELSE NULL
                reuse == ReusesNext(a, size, alignment)
                new_block == IF reuse THEN next_block ELSE backing
                header == [SizeIncludingHeader |-> new_block_size,
                           AllocatedFromBackingAllocator |-> TRUE,
                           Next |-> next_block]
                got == MemAlloc(a, backing, new_block_size)
                written == [got EXCEPT !.Block =
                               [b \in (DOMAIN got.Block) \cup {backing} |->
                                   IF b = backing THEN header ELSE got.Block[b]]]
                linked == IF curr_block # NULL
                          THEN [written EXCEPT !.Block[curr_block].Next = backing]
                          ELSE [written EXCEPT !.FirstBlock = backing]
                a1 == IF reuse THEN a ELSE linked
            IN [a |-> [a1 EXCEPT !.Mark = [Block |-> new_block,
                                           Ptr |-> new_block + result_offset + size]],
                result |-> new_block + result_offset]
       ELSE [a |-> [a EXCEPT !.Mark.Ptr = result + size], result |-> result]

RECURSIVE FreeChain(_, _)
\* The loop of Reset leaving after the first block it frees.
FreeChain_OnlyOne(a, block) ==
    IF block = NULL THEN a ELSE MemFree(a, block)

\* The loop of Reset over the blocks after the first: free each, following Next.
FreeChain(a, block) ==
    IF block = NULL THEN a
    ELSE LET next == a.Block[block].Next
         IN FreeChain(MemFree(a, block), next)

\* Reset releasing an oversized first block without looking at its owner.
ResetFirst_NoOwnerCheck(a) ==
    [MemFree(a, a.FirstBlock) EXCEPT !.FirstBlock = NULL]

\* Reset dropping an oversized first block without handing it back.
ResetFirst_NoFree(a) ==
    IF a.Block[a.FirstBlock].SizeIncludingHeader > a.BlockSize
    THEN [a EXCEPT !.FirstBlock = NULL]
    ELSE a

\* The end of Reset: the first block goes too if it is larger than BlockSize.
ResetFirst(a) ==
    IF a.Block[a.FirstBlock].SizeIncludingHeader > a.BlockSize
    THEN [(IF a.Block[a.FirstBlock].AllocatedFromBackingAllocator
           THEN MemFree(a, a.FirstBlock) ELSE a)
          EXCEPT !.FirstBlock = NULL]
    ELSE a

\* DS_Arena::Reset.  (char*)FirstBlock + sizeof(DS_ArenaBlockHeader) is
\* computed on a null FirstBlock too, which every build evaluates to the
\* address sizeof(DS_ArenaBlockHeader).
Reset(a) ==
    LET a1 == IF a.FirstBlock # NULL
              THEN LET freed == FreeChain(a, a.Block[a.FirstBlock].Next)
                   IN ResetFirst([freed EXCEPT !.Block[a.FirstBlock].Next = NULL])
              ELSE a
    IN [a1 EXCEPT !.Mark = [Block |-> a1.FirstBlock, Ptr |-> a1.FirstBlock + HeaderSize]]

RECURSIVE DeinitLoop(_, _)
\* Deinit freeing every block, caller-supplied or not.
DeinitLoop_FreeAll(a, block) ==
    IF block = NULL THEN a
    ELSE LET next == a.Block[block].Next
         IN DeinitLoop(MemFree(a, block), next)

\* The loop of Deinit: free the blocks that came from the backing allocator.
DeinitLoop(a, block) ==
    IF block = NULL THEN a
    ELSE LET next == a.Block[block].Next
         IN DeinitLoop(IF a.Block[block].AllocatedFromBackingAllocator
                       THEN MemFree(a, block) ELSE a,
                       next)

\* DS_Arena::Deinit; the object is then overwritten with 0xCC and is not used again.
Deinit(a) == [DeinitLoop(a, a.FirstBlock) EXCEPT !.Alive = FALSE]

\* DS_Arena::GetMark.
GetMark(a) == a.Mark

\* SetMark cutting the chain after the block it rewinds to.
SetMark_Truncate(a, mark) ==
    IF mark.Block = NULL
    THEN [a EXCEPT !.Mark = [Block |-> a.FirstBlock, Ptr |-> a.FirstBlock + HeaderSize]]
    ELSE [a EXCEPT !.Mark = mark, !.Block[mark.Block].Next = NULL]

\* DS_Arena::SetMark.
SetMark(a, mark) ==
    IF mark.Block = NULL
    THEN [a EXCEPT !.Mark = [Block |-> a.FirstBlock, Ptr |-> a.FirstBlock + HeaderSize]]
    ELSE [a EXCEPT !.Mark = mark]

\* memcpy(dst, src, n) on the memory mem (address -> byte); src and dst do not overlap.
Memcpy(mem, dst, src, n) ==
    [x \in DOMAIN mem |-> IF x \in Bytes(dst, n) THEN mem[src + (x - dst)] ELSE mem[x]]

\* DS_StackAllocatorFunction, the AllocatorFunc of an arena: what MemAlloc,
\* MemRealloc and MemFree reach.  copy is the memcpy it performs (n = 0: none).
StackAllocatorFunction(a, old_data, old_size, size, alignment, backing) ==
    LET r == PushUninitialized(a, size, alignment, backing)
    IN [a |-> r.a, result |-> r.result,
        copy |-> IF old_data # NULL
                 THEN [dst |-> r.result, src |-> old_data, n |-> old_size]
                 ELSE [dst |-> NULL, src |-> NULL, n |-> 0]]

RECURSIVE ChainFrom(_, _)
\* The blocks of the chain from `block` on, in Next order.
ChainFrom(a, block) ==
    IF block = NULL THEN <<>> ELSE <<block>> \o ChainFrom(a, a.Block[block].Next)

Chain(a) == ChainFrom(a, a.FirstBlock)

FirstCall == [op |-> "Init", freed |-> 0, got |-> NULL]

\* The arena of a run that exercises a table: constructed, never used.
ArenaIdle ==
    /\ arena = ArenaInit(NULL, 64, 16)
    /\ allocs = <<>>
    /\ marks = <<>>
    /\ initial = NULL
    /\ alast = FirstCall

----------------------------------------------------------------------------
(* The table under test and the operations its owner calls *)

RECURSIVE Pow2(_)
Pow2(i) == IF i = 0 THEN 1 ELSE 2 * Pow2(i - 1)

\* The slot counts a caller passes to Init and Resize: zero or a power of two.
SlotCounts == {0} \cup {Pow2(i) : i \in 0..MaxSlotsLog}

AbsEmpty == [keys |-> {}, val |-> [k \in {} |-> 0]]

\* abs after the value v has been stored for key k
AbsStore(a, k, v) ==
    [keys |-> a.keys \cup {k},
     val  |-> [x \in (DOMAIN a.val) \cup {k} |-> IF x = k THEN v ELSE a.val[x]]]

\* abs after k has been added without a store: an existing key keeps its value
AbsAdd(a, k) == [a EXCEPT !.keys = @ \cup {k}]

AbsRemove(a, k) ==
    [keys |-> a.keys \ {k},
     val  |-> [x \in (DOMAIN a.val) \ {k} |-> a.val[x]]]

\* The key held by slot i of table t of the given kind.
KeyAt(kind, t, i) == IF kind = "Set" THEN t.Data[i] ELSE t.Data[i].Key

\* The number of keys other than k that t1 holds in a slot index where t2 does
\* not hold them.
Moved(kind, t1, t2, k) ==
    Cardinality({i \in DOMAIN t1.Data :
        /\ KeyAt(kind, t1, i) \notin {EmptyKey, k}
        /\ (i \notin DOMAIN t2.Data \/ KeyAt(kind, t2, i) # KeyAt(kind, t1, i))})

Call(op, key, ret, t2) ==
    [op |-> op, ret |-> ret, moved |-> Moved(subject, table, t2, key)]

\* Init(allocator, n) of a set or a map.
InitWith(allocator) ==
    /\ subject \in {"Set", "Map"}
    /\ \E n \in SlotCounts :
          table = IF subject = "Set" THEN SetInit(allocator, n) ELSE MapInit(allocator, n)
    /\ abs = AbsEmpty
    /\ last = [op |-> "Init", ret |-> TRUE, moved |-> 0]
    /\ ArenaIdle

\* A table over an allocator of the caller.
TableInit == InitWith("Caller")

\* A table over the heap allocator: Init(NULL, n).
LifetimeInit == InitWith("Heap")

DoSetAdd(k) ==
    /\ subject = "Set"
    /\ table.NumElems < MaxElems
    /\ LET r == SetAdd(table, k)
       IN /\ table' = r.t
          /\ last' = Call("Add", k, r.added, r.t)
    /\ abs' = AbsAdd(abs, k)
    /\ UNCHANGED <<subject, arenavars>>

DoSetRemove(k) ==
    /\ subject = "Set"
    /\ LET r == SetRemove(table, k)
       IN /\ table' = r.t
          /\ last' = Call("Remove", k, r.removed, r.t)
    /\ abs' = AbsRemove(abs, k)
    /\ UNCHANGED <<subject, arenavars>>

\* The slot counts a caller passes Resize, permitted or not.
AnySlotCounts == 0..Pow2(MaxSlotsLog)

\* The program after a failed DS_ASSERT of Resize: stopped, its table as it was.
ResizeAborted(kind) ==
    /\ subject' = kind
    /\ table' = table
    /\ last' = [op |-> "ResizeAssert", ret |-> FALSE, moved |-> 0]
    /\ UNCHANGED <<abs, arenavars>>

DoSetResize(n) ==
    /\ subject = "Set"
    /\ Cardinality(table.Live) < MaxArrays
    /\ IF ResizeAssert(table, n)
       THEN /\ table' = SetResize(table, n)
            /\ last' = Call("Resize", EmptyKey, TRUE, table')
            /\ UNCHANGED <<subject, abs, arenavars>>
       ELSE ResizeAborted("SetAborted")

DoMapAdd(k) ==
    /\ subject = "Map"
    /\ table.NumElems < MaxMapElems
    /\ LET r == MapAdd(table, k)
       IN /\ table' = r.t
          /\ last' = Call("Add", k, r.added, r.t)
    /\ abs' = AbsAdd(abs, k)
    /\ UNCHANGED <<subject, arenavars>>

DoMapSet(k, v) ==
    /\ subject = "Map"
    /\ table.NumElems < MaxMapElems
    /\ table' = MapSet(table, k, v)
    /\ last' = Call("Set", k, TRUE, table')
    /\ abs' = AbsStore(abs, k, v)
    /\ UNCHANGED <<subject, arenavars>>

DoMapRemove(k) ==
    /\ subject = "Map"
    /\ LET r == MapRemove(table, k)
       IN /\ table' = r.t
          /\ last' = Call("Remove", k, r.removed, r.t)
    /\ abs' = AbsRemove(abs, k)
    /\ UNCHANGED <<subject, arenavars>>

DoMapResize(n) ==
    /\ subject = "Map"
    /\ Cardinality(table.Live) < MaxArrays
    /\ IF ResizeAssert(table, n)
       THEN /\ table' = MapResize(table, n)
            /\ last' = Call("Resize", EmptyKey, TRUE, table')
            /\ UNCHANGED <<subject, abs, arenavars>>
       ELSE ResizeAborted("MapAborted")

\* The program after a failed DS_ASSERT: it has stopped, its table as it was.
Aborted(kind) ==
    /\ subject' = kind
    /\ table' = table
    /\ last' = [op |-> "Assert", ret |-> FALSE, moved |-> 0]
    /\ UNCHANGED <<abs, arenavars>>

\* DS_Set::Add called with the key KEY{}.
DoSetAddSentinel ==
    /\ subject = "Set"
    /\ table.NumElems < MaxElems
    /\ IF KeyAssert(EmptyKey)
       THEN LET r == SetAdd(table, EmptyKey)
            IN /\ table' = r.t
               /\ last' = Call("Add", EmptyKey, r.added, r.t)
               /\ abs' = AbsAdd(abs, EmptyKey)
               /\ UNCHANGED <<subject, arenavars>>
       ELSE Aborted("SetAborted")

\* DS_Map::Add called with the key KEY{}.
DoMapAddSentinel ==
    /\ subject = "Map"
    /\ table.NumElems < MaxMapElems
    /\ IF KeyAssert(EmptyKey)
       THEN LET r == MapAdd(table, EmptyKey)
            IN /\ table' = r.t
               /\ last' = Call("Add", EmptyKey, r.added, r.t)
               /\ abs' = AbsAdd(abs, EmptyKey)
               /\ UNCHANGED <<subject, arenavars>>
       ELSE Aborted("MapAborted")

\* DS_Map::Set called with the key KEY{}: the assertion is that of the Add it calls.
DoMapSetSentinel(v) ==
    /\ subject = "Map"
    /\ table.NumElems < MaxMapElems
    /\ IF KeyAssert(EmptyKey)
       THEN /\ table' = MapSet(table, EmptyKey, v)
            /\ last' = Call("Set", EmptyKey, TRUE, table')
            /\ abs' = AbsStore(abs, EmptyKey, v)
            /\ UNCHANGED <<subject, arenavars>>
       ELSE Aborted("MapAborted")

TableNext ==
    \/ \E k \in SetKeys : DoSetAdd(k)
    \/ \E k \in SetKeys : DoSetRemove(k)
    \/ \E n \in AnySlotCounts : DoSetResize(n)
    \/ \E k \in MapKeys : DoMapAdd(k)
    \/ \E k \in MapKeys, v \in Values : DoMapSet(k, v)
    \/ \E k \in MapKeys : DoMapRemove(k)
    \/ \E n \in AnySlotCounts : DoMapResize(n)
    \/ DoSetAddSentinel
    \/ DoMapAddSentinel
    \/ \E v \in Values : DoMapSetSentinel(v)

TableSpec == TableInit /\ [][TableNext]_vars

\* Deinit: the table is gone, its slot array handed back.
DoSetDeinit ==
    /\ subject = "Set"
    /\ subject' = "SetDeinit"
    /\ table' = SetDeinit(table)
    /\ last' = [op |-> "Deinit", ret |-> TRUE, moved |-> 0]
    /\ UNCHANGED <<abs, arenavars>>

DoMapDeinit ==
    /\ subject = "Map"
    /\ subject' = "MapDeinit"
    /\ table' = MapDeinit(table)
    /\ last' = [op |-> "Deinit", ret |-> TRUE, moved |-> 0]
    /\ UNCHANGED <<abs, arenavars>>

\* A table from Init to Deinit.
LifetimeNext ==
    \/ TableNext
    \/ DoSetDeinit
    \/ DoMapDeinit

LifetimeSpec == LifetimeInit /\ [][LifetimeNext]_vars

\* What a lookup or a removal called with the key KEY{} leaves behind: `ret`
\* is the value returned (for FindPtr: the pointer is not NULL), `old` and
\* `value` are what *value of Find held before and after the call.
Lookup(op, ret, old, value) ==
    [op |-> op, key |-> EmptyKey, ret |-> ret, old |-> old, value |-> value]

\* DS_Set::Has called with the key KEY{}.
DoSetHasSentinel ==
    /\ subject = "Set"
    /\ last' = Lookup("Has", SetHas(table, EmptyKey), ZeroValue, ZeroValue)
    /\ UNCHANGED <<subject, table, abs, arenavars>>

\* DS_Set::Remove called with the key KEY{}.
DoSetRemoveSentinel ==
    /\ subject = "Set"
    /\ LET r == SetRemove(table, EmptyKey)
       IN /\ table' = r.t
          /\ last' = Lookup("Remove", r.removed, ZeroValue, ZeroValue)
    /\ abs' = AbsRemove(abs, EmptyKey)
    /\ UNCHANGED <<subject, arenavars>>

\* DS_Map::Has called with the key KEY{}.
DoMapHasSentinel ==
    /\ subject = "Map"
    /\ last' = Lookup("Has", MapHas(table, EmptyKey), ZeroValue, ZeroValue)
    /\ UNCHANGED <<subject, table, abs, arenavars>>

\* DS_Map::FindPtr called with the key KEY{}.
DoMapFindPtrSentinel ==
    /\ subject = "Map"
    /\ last' = Lookup("FindPtr", MapFindPtr(table, EmptyKey) # -1, ZeroValue, ZeroValue)
    /\ UNCHANGED <<subject, table, abs, arenavars>>

\* DS_Map::Find called with the key KEY{} and a *value that holds `old`.
DoMapFindSentinel(old) ==
    /\ subject = "Map"
    /\ LET r == MapFind(table, EmptyKey, old)
       IN last' = Lookup("Find", r.found, old, r.value)
    /\ UNCHANGED <<subject, table, abs, arenavars>>

\* DS_Map::Remove called with the key KEY{}.
DoMapRemoveSentinel ==
    /\ subject = "Map"
    /\ LET r == MapRemove(table, EmptyKey)
       IN /\ table' = r.t
          /\ last' = Lookup("Remove", r.removed, ZeroValue, ZeroValue)
    /\ abs' = AbsRemove(abs, EmptyKey)
    /\ UNCHANGED <<subject, arenavars>>

\* A table whose caller also looks up and removes the key KEY{}.
LookupNext ==
    \/ TableNext
    \/ DoSetHasSentinel
    \/ DoSetRemoveSentinel
    \/ DoMapHasSentinel
    \/ DoMapFindPtrSentinel
    \/ \E old \in Values : DoMapFindSentinel(old)
    \/ DoMapRemoveSentinel

LookupSpec == TableInit /\ [][LookupNext]_vars

----------------------------------------------------------------------------
(* The arena under test and the operations its owner calls *)

\* The (size, alignment) pairs the caller pushes.
PushSizes == {0, 8, 40}
Alignments == {1, 16, 32}

\* The arguments the caller gives Init.
BlockSizes == {64}
BlockAlignments == {16, 32}
InitialBlocks == {NULL, InitialBlockAddr}

ACall(op, a2, got) ==
    [op |-> op,
     freed |-> Cardinality((DOMAIN arena.Live) \ (DOMAIN a2.Live))
               + Cardinality(a2.BadFree \ arena.BadFree),
     got |-> got]

ArenaStart ==
    /\ subject = "Arena"
    /\ table = SetInit("Caller", 0)
    /\ abs = AbsEmpty
    /\ last = [op |-> "Init", ret |-> TRUE, moved |-> 0]
    /\ initial \in InitialBlocks
    /\ \E bs \in BlockSizes, ba \in BlockAlignments :
          /\ BitAnd(initial, ba - 1) = 0
          /\ arena = ArenaInit(initial, bs, ba)
    /\ allocs = <<>>
    /\ marks = <<>>
    /\ alast = FirstCall

\* The second assertion of PushUninitialized left out.
AlignmentOk_NoLimit(a, alignment) ==
    alignment # 0 /\ BitAnd(alignment, alignment - 1) = 0

\* The assertions at the head of PushUninitialized.
AlignmentOk(a, alignment) ==
    /\ alignment # 0 /\ BitAnd(alignment, alignment - 1) = 0
    /\ alignment <= a.BlockAlignment

\* One push, with the backing allocator returning `backing` if it is asked.
PushWith(size, alignment, backing) ==
    LET r == PushUninitialized(arena, size, alignment, backing)
    IN /\ arena' = r.a
       /\ allocs' = Append(allocs, [addr |-> r.result, size |-> size,
                                    alignment |-> alignment, block |-> r.a.Mark.Block])
       /\ alast' = ACall("Push", r.a, backing)

DoPush(size, alignment) ==
    /\ subject = "Arena"
    /\ arena.Alive
    /\ Len(allocs) < MaxLive
    /\ AlignmentOk(arena, alignment)
    /\ IF NeedsBlock(arena, size, alignment) /\ ~ReusesNext(arena, size, alignment)
       THEN \E x \in AllocChoices(arena, NewBlockSize(arena, size, alignment),
                                  arena.BlockAlignment) :
               PushWith(size, alignment, x)
       ELSE PushWith(size, alignment, NULL)
    /\ UNCHANGED <<subject, tablevars, marks, initial>>

\* MemRealloc(old_data, old_size, size, alignment) on the arena, for the i-th
\* live push and its size; the region returned is a live push too.
DoRealloc(i, size, alignment) ==
    /\ subject = "Arena"
    /\ arena.Alive
    /\ Len(allocs) < MaxLive
    /\ i \in 1..Len(allocs)
    /\ allocs[i].addr # NULL
    /\ AlignmentOk(arena, alignment)
    /\ \E x \in (IF NeedsBlock(arena, size, alignment) /\ ~ReusesNext(arena, size, alignment)
                 THEN AllocChoices(arena, NewBlockSize(arena, size, alignment),
                                   arena.BlockAlignment)
                 ELSE {NULL}) :
          LET r == StackAllocatorFunction(arena, allocs[i].addr, allocs[i].size,
                                          size, alignment, x)
          IN /\ arena' = r.a
             /\ allocs' = Append(allocs, [addr |-> r.result, size |-> size,
                                          alignment |-> alignment, block |-> r.a.Mark.Block])
             /\ alast' = [op |-> "Realloc",
                          freed |-> 0,
                          got |-> x,
                          old |-> i,
                          copy |-> r.copy]
    /\ UNCHANGED <<subject, tablevars, marks, initial>>

DoGetMark ==
    /\ subject = "Arena"
    /\ arena.Alive
    /\ Len(marks) < MaxMarks
    /\ IF marks = <<>> THEN TRUE ELSE marks[Len(marks)].n # Len(allocs)
    /\ marks' = Append(marks, [mark |-> GetMark(arena), n |-> Len(allocs), pure |-> TRUE])
    /\ alast' = ACall("GetMark", arena, NULL)
    /\ UNCHANGED <<subject, tablevars, arena, allocs, initial>>

\* SetMark with the i-th mark the caller holds: the pushes made after it was
\* taken are released, and so are the marks taken after it.
DoSetMark(i) ==
    /\ subject = "Arena"
    /\ arena.Alive
    /\ i \in 1..Len(marks)
    /\ arena' = SetMark(arena, marks[i].mark)
    /\ allocs' = SubSeq(allocs, 1, marks[i].n)
    /\ marks' = [j \in 1..i |-> [marks[j] EXCEPT !.pure = FALSE]]
    /\ alast' = ACall("SetMark", arena', NULL)
    /\ UNCHANGED <<subject, tablevars, initial>>

\* SetMark with a null mark: everything pushed so far is released.
DoSetMarkNull ==
    /\ subject = "Arena"
    /\ arena.Alive
    /\ arena' = SetMark(arena, [Block |-> NULL, Ptr |-> NULL])
    /\ allocs' = <<>>
    /\ marks' = <<>>
    /\ alast' = ACall("SetMarkNull", arena', NULL)
    /\ UNCHANGED <<subject, tablevars, initial>>

DoReset ==
    /\ subject = "Arena"
    /\ arena.Alive
    /\ arena' = Reset(arena)
    /\ allocs' = <<>>
    /\ marks' = <<>>
    /\ alast' = ACall("Reset", arena', NULL)
    /\ UNCHANGED <<subject, tablevars, initial>>

DoDeinit ==
    /\ subject = "Arena"
    /\ arena.Alive
    /\ arena' = Deinit(arena)
    /\ allocs' = <<>>
    /\ marks' = <<>>
    /\ alast' = ACall("Deinit", arena', NULL)
    /\ UNCHANGED <<subject, tablevars, initial>>

ArenaNext ==
    \/ \E size \in PushSizes, alignment \in Alignments : DoPush(size, alignment)
    \/ DoGetMark
    \/ \E i \in 1..MaxMarks : DoSetMark(i)
    \/ DoSetMarkNull
    \/ DoReset
    \/ DoDeinit

ArenaSpec == ArenaStart /\ [][ArenaNext]_vars

----------------------------------------------------------------------------
(* The arena called with arguments its assertions reject *)

MisalignedBlockAddr == 48   \* an initial block at a multiple of 16, not of 32

\* The assertion of Init on a supplied initial block.
InitAssert(initial_block, block_alignment) ==
    BitAnd(initial_block, block_alignment - 1) = 0

\* The arena object when the assertion of Init fails: the fields are assigned,
\* no header has been written.
InitAborted(initial_block, block_size, block_alignment) ==
    [ArenaInit(NULL, block_size, block_alignment)
        EXCEPT !.FirstBlock = initial_block,
               !.Mark = [Block |-> initial_block, Ptr |-> NULL]]

\* The alignments a caller may pass, valid or not.
AnyAlignments == {0, 1, 3, 16, 32, 64}

AssertStart ==
    /\ table = SetInit("Caller", 0)
    /\ abs = AbsEmpty
    /\ last = [op |-> "Init", ret |-> TRUE, moved |-> 0]
    /\ initial \in InitialBlocks \cup {MisalignedBlockAddr}
    /\ allocs = <<>>
    /\ marks = <<>>
    /\ \E bs \in BlockSizes, ba \in BlockAlignments :
          IF initial = NULL \/ InitAssert(initial, ba)
          THEN /\ subject = "Arena"
               /\ arena = ArenaInit(initial, bs, ba)
               /\ alast = FirstCall
          ELSE /\ subject = "ArenaAborted"
               /\ arena = InitAborted(initial, bs, ba)
               /\ alast = [op |-> "Assert", freed |-> 0, got |-> NULL, alignment |-> ba]

\* PushUninitialized(size, alignment) for any alignment: the assertions at its
\* head stop the program, or the push goes on.
DoPushAsserting(size, alignment) ==
    /\ subject = "Arena"
    /\ arena.Alive
    /\ Len(allocs) < MaxLive
    /\ IF AlignmentOk(arena, alignment)
       THEN DoPush(size, alignment)
       ELSE /\ subject' = "ArenaAborted"
            /\ alast' = [op |-> "Assert", freed |-> 0, got |-> NULL,
                         alignment |-> alignment]
            /\ UNCHANGED <<tablevars, arena, allocs, marks, initial>>

AssertNext ==
    \/ \E size \in PushSizes, alignment \in AnyAlignments : DoPushAsserting(size, alignment)
    \/ DoSetMarkNull
    \/ DoReset

AssertSpec == AssertStart /\ [][AssertNext]_vars

\* The arena used as a DS_Allocator: MemAlloc and MemRealloc, and Reset or a
\* rewind to the start in between.
AllocatorNext ==
    \/ \E size \in PushSizes, alignment \in Alignments : DoPush(size, alignment)
    \/ \E i \in 1..MaxLive, size \in PushSizes \ {0}, alignment \in Alignments :
          DoRealloc(i, size, alignment)
    \/ DoSetMarkNull
    \/ DoReset

AllocatorSpec == ArenaStart /\ [][AllocatorNext]_vars

----------------------------------------------------------------------------
(* Observations of a table, whichever kind it is *)

Has(k) == IF subject = "Set" THEN SetHas(table, k) ELSE MapHas(table, k)

SlotKey(i) == KeyAt(subject, table, i)

\* hash(k) & mask for the table as it is
Home(k) == BitAnd(k, table.NumSlots - 1)

\* The slots a probe for the key of slot s passes before it reaches s.
ProbePath(s) ==
    LET h == Home(SlotKey(s))
        dist == (s - h + table.NumSlots) % table.NumSlots
    IN {BitAnd(h + d, table.NumSlots - 1) : d \in 0..(dist - 1)}

----------------------------------------------------------------------------
(* Hash table: membership, probe chains, values, load factor *)

\* C1: after every operation, Has(k) is true exactly for the keys added and
\* not removed since: the keys Has reports are the abstract set.
HasIsAbstractSet ==
    subject \in {"Set", "Map"} =>
        \A k \in Keys : Has(k) <=> (k \in abs.keys)

\* A set from which Remove has just taken a key, moving a neighbour, and which
\* still holds keys.
HasIsAbstractSetWitness ==
    /\ subject = "Set"
    /\ last.op = "Remove" /\ last.ret /\ last.moved > 0
    /\ abs.keys # {}
    /\ \E k \in SetKeys \ abs.keys : SlotKey(Home(k)) # EmptyKey

\* C2: for every occupied slot s, the probe from the home slot of its key
\* reaches s without meeting an empty slot before it.
ProbeChainUnbroken ==
    subject \in {"Set", "Map"} =>
        \A s \in DOMAIN table.Data :
            SlotKey(s) # EmptyKey =>
                \A j \in ProbePath(s) : SlotKey(j) # EmptyKey

\* The state left by a Remove whose repair moved two keys or more, one of
\* which is still away from its home slot.
ProbeChainUnbrokenWitness ==
    /\ subject \in {"Set", "Map"}
    /\ last.op = "Remove" /\ last.ret /\ last.moved >= 2
    /\ \E s \in DOMAIN table.Data : SlotKey(s) # EmptyKey /\ s # Home(SlotKey(s))

\* What Find(k) reports on a map t: found, and the value it writes.
FindOf(t, k) == MapFind(t, k, ZeroValue)

\* Find agrees with the abstract map: present exactly for the keys added and
\* not removed, with the value last stored.
FindIsAbstractMap ==
    subject = "Map" =>
        \A k \in Keys :
            /\ FindOf(table, k).found <=> (k \in abs.keys)
            /\ k \in DOMAIN abs.val => FindOf(table, k).value = abs.val[k]

\* An Add, Set or Remove of key k leaves what Find reports for every other
\* key as it was.
OtherValuesKept ==
    \A k \in MapKeys :
        (DoMapAdd(k) \/ DoMapRemove(k) \/ \E v \in Values : DoMapSet(k, v)) =>
            \A k2 \in Keys \ {k} : FindOf(table', k2) = FindOf(table, k2)

\* C3: Find(k) returns true with the value most recently stored for k when k
\* is present and false when absent, and every Add, Set and Remove preserves
\* the values of all other keys.
FindReturnsLastStored == [] FindIsAbstractMap /\ [][OtherValuesKept]_vars

\* A map in which every key has a stored value, right after a Remove whose
\* repair moved a key, or right after an Add or Set that grew the table.
FindReturnsLastStoredWitness ==
    /\ subject = "Map"
    /\ table.NumElems >= 2
    /\ DOMAIN abs.val = abs.keys
    /\ \/ last.op = "Remove" /\ last.ret /\ last.moved > 0
       \/ last.op \in {"Add", "Set"} /\ last.moved > 0

\* C4: after every mutating operation, if NumSlots > 0 then
\* 100 * NumElems <= 70 * NumSlots.
LoadFactorBound ==
    subject \in {"Set", "Map"} =>
        (table.NumSlots > 0 => 100 * table.NumElems <= 70 * table.NumSlots)

\* A table as full as the bound allows (5 of 8), and a table an Add has just grown.
LoadFactorBoundWitness ==
    /\ subject = "Set"
    /\ last.op = "Add" /\ last.ret
    /\ 100 * (table.NumElems + 1) > 70 * table.NumSlots

----------------------------------------------------------------------------
(* Arena: alignment, containment, marks, Reset, Deinit *)

\* C5: every PushUninitialized(size, alignment) with alignment a power of two
\* not above BlockAlignment returns a multiple of alignment, in every state
\* reached through Init, PushUninitialized, GetMark, SetMark and Reset.
PushAligned ==
    subject = "Arena" =>
        \A i \in 1..Len(allocs) : allocs[i].addr % allocs[i].alignment = 0

\* A push that had to skip bytes of its block to align what it returns.
PushAlignedWitness ==
    /\ subject = "Arena"
    /\ alast.op = "Push" /\ Len(allocs) >= 2
    /\ LET new == allocs[Len(allocs)]
           prev == allocs[Len(allocs) - 1]
       IN /\ new.alignment > 1 /\ new.size > 0 /\ prev.size > 0
          /\ new.block = prev.block
          /\ new.addr > prev.addr + prev.size

\* The range of push p lies in one block of the chain, past the block's header.
InsideOneBlock(p) ==
    \E k \in 1..Len(Chain(arena)) :
        LET block == Chain(arena)[k]
        IN /\ block + HeaderSize <= p.addr
           /\ p.addr + p.size <= block + arena.Block[block].SizeIncludingHeader

\* No two live pushes share a byte.
LivePushesDisjoint ==
    \A i, j \in 1..Len(allocs) :
        i < j => Bytes(allocs[i].addr, allocs[i].size)
                     \cap Bytes(allocs[j].addr, allocs[j].size) = {}

\* C6, as stated: the range [p, p+size) of every live push lies wholly inside
\* one block of the chain, at or after that block's header, and is disjoint
\* from the range of every earlier push that is still live.
PushInsideBlockAlways ==
    (subject = "Arena" /\ arena.Alive) =>
        /\ \A i \in 1..Len(allocs) : InsideOneBlock(allocs[i])
        /\ LivePushesDisjoint

\* C6, amended: the same, for every push of size > 0 and every push of size 0
\* made while the arena has a current block; a push of size 0 on an arena
\* with no current block returns an address in no block.
PushInsideBlock ==
    (subject = "Arena" /\ arena.Alive) =>
        /\ \A i \in 1..Len(allocs) :
              (allocs[i].size > 0 \/ allocs[i].block # NULL) => InsideOneBlock(allocs[i])
        /\ LivePushesDisjoint

\* Two live pushes in different blocks of a chain of three, the later one in
\* a block that was inserted between two blocks of the chain.
PushInsideBlockWitness ==
    /\ subject = "Arena"
    /\ alast.op = "Push" /\ Len(allocs) >= 2
    /\ Len(Chain(arena)) = 3
    /\ allocs[Len(allocs)].size > 0 /\ allocs[Len(allocs) - 1].size > 0
    /\ allocs[Len(allocs)].block = Chain(arena)[2]
    /\ allocs[Len(allocs) - 1].block = Chain(arena)[1]
    /\ alast.got = Chain(arena)[2]

\* The address the backing allocator returns to a push made on arena a outside
\* the run: the lowest that fits (NULL if the push asks for no block).
BackingFor(a, size, alignment) ==
    IF NeedsBlock(a, size, alignment) /\ ~ReusesNext(a, size, alignment)
    THEN LET fit == Fits(a, NewBlockSize(a, size, alignment), a.BlockAlignment)
         IN IF fit = {} THEN HeapEnd ELSE CHOOSE x \in fit : \A y \in fit : x <= y
    ELSE NULL

RECURSIVE Pushes(_, _)
\* The addresses returned by making the pushes of seq, in order, on arena a.
Pushes(a, seq) ==
    IF seq = <<>> THEN <<>>
    ELSE LET size == Head(seq).size
             alignment == Head(seq).alignment
             r == PushUninitialized(a, size, alignment, BackingFor(a, size, alignment))
         IN <<r.result>> \o Pushes(r.a, Tail(seq))

\* C7: if m = GetMark() is taken, N pushes are made, SetMark(m) is called and
\* the same (size, alignment) pushes are made again, each push of the second
\* run returns the address the corresponding push of the first run returned,
\* size-0 pushes and a mark taken on an arena with no block included.
ReplayReturnsSameAddresses ==
    (subject = "Arena" /\ arena.Alive) =>
        \A i \in 1..Len(marks) :
            marks[i].pure =>
                LET first == SubSeq(allocs, marks[i].n + 1, Len(allocs))
                    again == Pushes(SetMark(arena, marks[i].mark), first)
                IN \A j \in 1..Len(first) : again[j] = first[j].addr

\* C8: in every reachable state SetMark(GetMark()) is a no-op: the cursor,
\* FirstBlock and the block chain are the same before and after, on an arena
\* freshly Init-ed without an initial block too.
SetMarkOfGetMarkIsNoOp ==
    (subject = "Arena" /\ arena.Alive) => SetMark(arena, GetMark(arena)) = arena

RECURSIVE Offsets(_, _)
\* What the pushes of seq, made in order on arena a, return, addresses aside:
\* for each push of size > 0 its offset inside the block it lies in (nothing
\* is recorded of a push of size 0, which occupies no byte).
Offsets(a, seq) ==
    IF seq = <<>> THEN <<>>
    ELSE LET size == Head(seq).size
             alignment == Head(seq).alignment
             r == PushUninitialized(a, size, alignment, BackingFor(a, size, alignment))
         IN <<IF size > 0 THEN r.result - r.a.Mark.Block ELSE -1>>
                \o Offsets(r.a, Tail(seq))

\* The pushes a caller of arena a may make.
Requests(a) ==
    {r \in [size : PushSizes, alignment : Alignments] : AlignmentOk(a, r.alignment)}

\* C9: after Reset the arena behaves like a freshly Init-ed arena with the
\* same block_size, block_alignment and initial block: the same pushes return
\* allocations at the same offset inside their block, and a caller-supplied
\* initial block is still the first block.
ResetIsFreshInit ==
    (subject = "Arena" /\ alast.op = "Reset") =>
        /\ initial # NULL => arena.FirstBlock = initial
        /\ LET fresh == ArenaInit(initial, arena.BlockSize, arena.BlockAlignment)
           IN \A r1 \in Requests(arena), r2 \in Requests(arena) :
                 Offsets(arena, <<r1, r2>>) = Offsets(fresh, <<r1, r2>>)

\* C10: Deinit passes every block obtained from the backing allocator to its
\* free exactly once (after Deinit no allocation is live, and no call has
\* freed what was not live); the caller-supplied initial block is never passed
\* to free, and stays the first block of the chain across every Reset.
BlocksFreedOnce ==
    subject = "Arena" =>
        /\ arena.BadFree = {}
        /\ ~arena.Alive => DOMAIN arena.Live = {}
        /\ (arena.Alive /\ initial # NULL) =>
              /\ arena.FirstBlock = initial
              /\ initial \in DOMAIN arena.Block

\* A Deinit that freed two blocks chained after a caller-supplied initial block.
BlocksFreedOnceWitness ==
    /\ subject = "Arena"
    /\ initial # NULL
    /\ alast.op = "Deinit" /\ alast.freed >= 2
    /\ ~arena.Alive

----------------------------------------------------------------------------
(* Arena as an allocator: resize *)

\* A memory in which every byte differs from every other.
Distinct == [x \in 0..(2 * HeapEnd) |-> x]

\* The lesser of two sizes.
Lesser(m, n) == IF m < n THEN m ELSE n

\* C11: a resize request (non-null old pointer, new_size > 0) served by the
\* arena returns a region of new_size bytes whose first min(old_size,
\* new_size) bytes equal the old contents, and copies no more than
\* min(old_size, new_size) bytes: nothing outside the returned region is
\* written, also when new_size < old_size.
ResizeCopiesLesser ==
    (subject = "Arena" /\ alast.op = "Realloc") =>
        LET old == allocs[alast.old]
            new == allocs[Len(allocs)]
            after == Memcpy(Distinct, alast.copy.dst, alast.copy.src, alast.copy.n)
        IN /\ \A k \in 0..(Lesser(old.size, new.size) - 1) :
                 after[new.addr + k] = Distinct[old.addr + k]
           /\ alast.copy.n <= Lesser(old.size, new.size)
           /\ \A x \in DOMAIN Distinct :
                 x \notin Bytes(new.addr, new.size) => after[x] = Distinct[x]

----------------------------------------------------------------------------
(* Hash table: what Resize, Add and Remove change and return *)

\* Has(k) on table t of the kind under test.
HasOf(t, k) == IF subject = "Set" THEN SetHas(t, k) ELSE MapHas(t, k)

\* A Resize leaves the keys, the value of every key and NumElems as they were.
ResizeKeeps ==
    (subject \in {"Set", "Map"} /\ last'.op = "Resize") =>
        /\ \A k \in Keys : HasOf(table', k) <=> HasOf(table, k)
        /\ subject = "Map" => \A k \in Keys : FindOf(table', k) = FindOf(table, k)
        /\ table'.NumElems = table.NumElems

\* C12: for any reachable table state, Resize(n) with n a power of two at
\* least the element count preserves the set of keys, the value of every key
\* (Map) and NumElems.
ResizePreserves == [][ResizeKeeps]_vars

\* A table of three keys or more that a Resize has just rearranged.
ResizePreservesWitness ==
    /\ subject \in {"Set", "Map"}
    /\ last.op = "Resize" /\ last.moved >= 2
    /\ table.NumElems >= 3
    /\ abs.keys # {}

\* What a call Add(k) returns and changes.
AddEffect(k) ==
    /\ last'.ret <=> ~HasOf(table, k)
    /\ table'.NumElems = table.NumElems + (IF last'.ret THEN 1 ELSE 0)
    /\ \A x \in Keys : HasOf(table', x) <=> (HasOf(table, x) \/ x = k)
    /\ subject = "Map" =>
          LET value == MapAdd(table, k).index
          IN value \in DOMAIN table'.Data /\ table'.Data[value].Key = k

\* C13: Add(k) returns true exactly when k was absent before the call;
\* NumElems grows by one in that case and is unchanged otherwise; afterwards
\* the key set is the previous one plus k, and for a Map the value pointer
\* designates the slot of k in the current slot array.
AddReturnsAbsent ==
    [][\A k \in Keys : ((k \in SetKeys /\ DoSetAdd(k)) \/ (k \in MapKeys /\ DoMapAdd(k)))
                           => AddEffect(k)]_vars

\* An Add that found its key present, and an Add that grew the table.
AddReturnsAbsentWitness ==
    /\ subject \in {"Set", "Map"}
    /\ last.op = "Add"
    /\ table.NumElems >= 2
    /\ \/ ~last.ret
       \/ last.ret /\ last.moved > 0

\* What a call Remove(k) returns and changes.
RemoveEffect(k) ==
    /\ last'.ret <=> HasOf(table, k)
    /\ ~HasOf(table, k) => table' = table
    /\ HasOf(table, k) =>
          /\ table'.NumElems = table.NumElems - 1
          /\ \A x \in Keys \ {k} : HasOf(table, x) => HasOf(table', x)

\* C14: Remove(k) returns true exactly when k was present; when k is absent
\* (a table with zero slots included) the slot array, NumElems and NumSlots
\* are unchanged; when k is present NumElems is one less afterwards and every
\* other key is still present.
RemoveReturnsPresent ==
    [][\A k \in Keys : ((k \in SetKeys /\ DoSetRemove(k)) \/ (k \in MapKeys /\ DoMapRemove(k)))
                           => RemoveEffect(k)]_vars

\* A Remove of an absent key on a table with zero slots.
RemoveReturnsPresentWitness ==
    /\ subject \in {"Set", "Map"}
    /\ last.op = "Remove" /\ ~last.ret
    /\ table.NumSlots = 0

\* The kind of the table, also of a program that has stopped.
Kind == IF subject \in {"Set", "SetAborted", "SetDeinit"} THEN "Set" ELSE "Map"

\* No key the table holds is the sentinel, and every element NumElems counts
\* lies in a slot whose key is not the sentinel.
NoSentinelElement ==
    subject # "Arena" =>
        /\ EmptyKey \notin abs.keys
        /\ table.NumElems =
              Cardinality({i \in DOMAIN table.Data : KeyAt(Kind, table, i) # EmptyKey})

\* C15: Add (Map and Set) and Map::Set called with the sentinel key fail an
\* assertion before the table is modified, so in no reachable state does an
\* occupied slot hold the sentinel key.
SentinelKeyAsserts ==
    /\ [] NoSentinelElement
    /\ [][last'.op = "Assert" => (table' = table /\ abs' = abs)]_vars

\* A program stopped by the assertion, its table holding keys.
SentinelKeyAssertsWitness ==
    /\ subject \in {"SetAborted", "MapAborted"}
    /\ last.op = "Assert"
    /\ table.NumElems >= 2

----------------------------------------------------------------------------
(* Arena: the cursor, the chain, Reset, block reuse and block size *)

\* C16: in every reachable state that has a current block, Mark.Ptr lies in
\* [block + header size, block + SizeIncludingHeader] of the block Mark.Block,
\* after Init, every PushUninitialized, Reset and SetMark with a null mark or
\* a mark GetMark returned.
CursorInsideBlock ==
    (subject = "Arena" /\ arena.Alive /\ arena.Mark.Block # NULL) =>
        /\ arena.Mark.Block \in DOMAIN arena.Block
        /\ arena.Mark.Block + HeaderSize <= arena.Mark.Ptr
        /\ arena.Mark.Ptr
              <= arena.Mark.Block + arena.Block[arena.Mark.Block].SizeIncludingHeader

\* A push that filled a block linked after the first one to its last byte.
CursorInsideBlockWitness ==
    /\ subject = "Arena" /\ arena.Alive
    /\ alast.op = "Push"
    /\ arena.Mark.Block \notin {NULL, arena.FirstBlock}
    /\ allocs[Len(allocs)].size > 0
    /\ arena.Mark.Ptr
          = arena.Mark.Block + arena.Block[arena.Mark.Block].SizeIncludingHeader

\* The chain seq with block b linked right after block cur (first, if cur is NULL).
InsertAfter(seq, cur, b) ==
    IF cur = NULL THEN <<b>> \o seq
    ELSE LET i == CHOOSE j \in 1..Len(seq) : seq[j] = cur
         IN SubSeq(seq, 1, i) \o <<b>> \o SubSeq(seq, i + 1, Len(seq))

\* The blocks of seq that are still in the chain `after`, in the order of seq.
Remaining(seq, after) ==
    SelectSeq(seq, LAMBDA b : \E j \in 1..Len(after) : after[j] = b)

\* The step obtained a block from the backing allocator.
ObtainsBlock == alast'.op = "Push" /\ alast'.got # NULL

\* C17, as stated: the blocks of the chain appear in the order in which they
\* were obtained: a step that obtains a block links it behind every block of
\* the chain, and every other step keeps the order of the blocks it keeps.
ChainInAllocationOrder ==
    [][(subject = "Arena" /\ arena'.Alive) =>
          IF ObtainsBlock
          THEN Chain(arena') = Append(Chain(arena), alast'.got)
          ELSE Chain(arena') = Remaining(Chain(arena), Chain(arena'))]_vars

\* C17, amended: the blocks of the chain appear in the order in which they
\* were obtained, except that a block obtained while the current block has a
\* successor (too small for the request, after a rewind) is linked between the
\* current block and that older successor.
ChainOrderKept ==
    [][(subject = "Arena" /\ arena'.Alive) =>
          IF ObtainsBlock
          THEN Chain(arena') = InsertAfter(Chain(arena), arena.Mark.Block, alast'.got)
          ELSE Chain(arena') = Remaining(Chain(arena), Chain(arena'))]_vars

\* A chain of three whose second block is the one obtained last.
ChainOrderKeptWitness ==
    /\ subject = "Arena" /\ arena.Alive
    /\ alast.op = "Push" /\ alast.got # NULL
    /\ Len(Chain(arena)) = 3
    /\ Chain(arena)[2] = alast.got
    /\ arena.Mark.Block = alast.got

\* What a Reset does to the chain, the backing allocator and the cursor.
ResetEffect ==
    LET first == arena.FirstBlock
        rest == IF first = NULL THEN <<>> ELSE Tail(Chain(arena))
        keep == first # NULL /\ arena.Block[first].SizeIncludingHeader <= arena.BlockSize
    IN /\ \A j \in 1..Len(rest) :
             rest[j] \notin DOMAIN arena'.Live /\ rest[j] \notin DOMAIN arena'.Block
       /\ arena'.BadFree = arena.BadFree
       /\ IF keep
          THEN /\ Chain(arena') = <<first>>
               /\ arena'.Block[first].SizeIncludingHeader = arena.Block[first].SizeIncludingHeader
               /\ first \in DOMAIN arena.Live => first \in DOMAIN arena'.Live
               /\ arena'.Mark = [Block |-> first, Ptr |-> first + HeaderSize]
          ELSE /\ arena'.FirstBlock = NULL
               /\ first \notin DOMAIN arena'.Live
               /\ arena'.Mark.Block = NULL

\* C18: after Reset every block that followed the first has been freed and
\* unlinked; the first block is kept exactly when its SizeIncludingHeader does
\* not exceed BlockSize, otherwise it is released (freed if backing-owned) and
\* FirstBlock is null; the cursor is at the header offset of the remaining
\* first block, or designates no block when none remains.
ResetFreesAfterFirst ==
    [][(subject = "Arena" /\ alast'.op = "Reset") => ResetEffect]_vars

\* A Reset that freed an oversized first block and a block linked after it.
ResetFreesAfterFirstWitness ==
    /\ subject = "Arena" /\ arena.Alive
    /\ alast.op = "Reset" /\ alast.freed >= 2
    /\ arena.FirstBlock = NULL

\* The greater of two sizes.
Greater(m, n) == IF m > n THEN m ELSE n

\* What a step PushUninitialized(size, alignment) does, by where the request fits.
ReuseEffect ==
    LET size == allocs'[Len(allocs')].size
        alignment == allocs'[Len(allocs')].alignment
        cur == arena.Mark.Block
        next == IF cur # NULL THEN arena.Block[cur].Next ELSE NULL
        fitsCurrent ==
            /\ cur # NULL
            /\ AlignUpPow2(arena.Mark.Ptr, alignment) + size
                  <= cur + arena.Block[cur].SizeIncludingHeader
        fitsNext ==
            /\ next # NULL
            /\ AlignUpPow2(HeaderSize, alignment) + size
                  <= arena.Block[next].SizeIncludingHeader
        obtained == (DOMAIN arena'.Live) \ (DOMAIN arena.Live)
    IN /\ obtained # {} => (~fitsCurrent /\ ~fitsNext)
       /\ (~fitsCurrent /\ fitsNext) =>
             /\ obtained = {}
             /\ arena'.Mark.Block = next
             /\ Chain(arena') = Chain(arena)
       /\ fitsCurrent =>
             /\ obtained = {}
             /\ arena'.Mark.Block = cur
             /\ Chain(arena') = Chain(arena)

\* C19: PushUninitialized obtains memory from the backing allocator only when
\* the aligned request fits neither in the rest of the current block nor in
\* the block linked right after it; when that successor has room the cursor
\* moves into it and no block is allocated; when the request fits in the
\* current block neither the chain nor Mark.Block changes.
PushReusesNextBlock ==
    [][(subject = "Arena" /\ alast'.op = "Push") => ReuseEffect]_vars

\* A push of size > 0, after a rewind, that moved the cursor into the block
\* linked after the current one without obtaining a block.
PushReusesNextBlockWitness ==
    /\ subject = "Arena" /\ arena.Alive
    /\ alast.op = "Push" /\ alast.got = NULL
    /\ Len(allocs) >= 2
    /\ allocs[Len(allocs)].size > 0
    /\ allocs[Len(allocs) - 1].block = arena.FirstBlock
    /\ arena.Mark.Block = arena.Block[arena.FirstBlock].Next

\* C20, as stated: every block PushUninitialized obtains has
\* SizeIncludingHeader = max(block_size, header size + requested size), for
\* every permitted alignment, and is linked right after the current block (or
\* is the first block when there is no current block), the former successor
\* of the current block behind it.
NewBlockSizeIsHeaderPlusSize ==
    [][(subject = "Arena" /\ ObtainsBlock) =>
          /\ arena'.Block[alast'.got].SizeIncludingHeader
                = Greater(arena.BlockSize, HeaderSize + allocs'[Len(allocs')].size)
          /\ Chain(arena') = InsertAfter(Chain(arena), arena.Mark.Block, alast'.got)]_vars

\* C20, amended: the size is max(block_size, header size rounded up to the
\* requested alignment + requested size); the linking is as stated.
NewBlockSizeIsOffsetPlusSize ==
    [][(subject = "Arena" /\ ObtainsBlock) =>
          /\ arena'.Block[alast'.got].SizeIncludingHeader
                = Greater(arena.BlockSize,
                          (IF allocs'[Len(allocs')].alignment > HeaderSize
                           THEN allocs'[Len(allocs')].alignment ELSE HeaderSize)
                          + allocs'[Len(allocs')].size)
          /\ arena'.Block[alast'.got].AllocatedFromBackingAllocator
          /\ Chain(arena') = InsertAfter(Chain(arena), arena.Mark.Block, alast'.got)]_vars

\* A block larger than BlockSize, obtained for a push aligned above the header
\* size and linked in front of an older block.
NewBlockSizeIsOffsetPlusSizeWitness ==
    /\ subject = "Arena" /\ arena.Alive
    /\ alast.op = "Push" /\ alast.got # NULL
    /\ allocs[Len(allocs)].alignment > HeaderSize
    /\ arena.Block[alast.got].SizeIncludingHeader > arena.BlockSize
    /\ arena.Block[alast.got].Next # NULL

----------------------------------------------------------------------------
(* C21: what PushUninitialized and SetMark leave alone *)

\* The blocks of a chain, as a set.
Blocks(a) == {Chain(a)[i] : i \in 1..Len(Chain(a))}

\* No allocation of a is released in a2, and no block of a's chain is missing
\* from the chain of a2.
NothingReleased(a, a2) ==
    /\ \A b \in DOMAIN a.Live : b \in DOMAIN a2.Live /\ a2.Live[b] = a.Live[b]
    /\ a2.BadFree = a.BadFree
    /\ Blocks(a) \subseteq Blocks(a2)
    /\ \A b \in DOMAIN a.Block : b \in DOMAIN a2.Block

PushOrSetMarkEffect ==
    /\ alast'.op \in {"Push", "SetMark", "SetMarkNull"} =>
          /\ NothingReleased(arena, arena')
          /\ alast'.freed = 0
    /\ alast'.op \in {"SetMark", "SetMarkNull"} =>
          arena' = [arena EXCEPT !.Mark = arena'.Mark]
    /\ ~NothingReleased(arena, arena') => alast'.op \in {"Reset", "Deinit"}

\* C21: PushUninitialized and SetMark free no block and take no block out of
\* the chain; SetMark changes the Mark and nothing else (FirstBlock and every
\* header stay as they are); a step that releases a block is a Reset or a Deinit.
PushAndSetMarkFreeNothing == [][PushOrSetMarkEffect]_vars

\* A SetMark has rewound to a block that has a successor in the chain, which
\* came from the backing allocator and is still live.
PushAndSetMarkFreeNothingWitness ==
    /\ alast.op = "SetMark"
    /\ arena.Mark.Block # NULL
    /\ arena.Block[arena.Mark.Block].Next \in DOMAIN arena.Live

----------------------------------------------------------------------------
(* C22: the assertions on alignments *)

\* An alignment PushUninitialized must not be given by an arena of block
\* alignment ba.
BadAlignment(alignment, ba) ==
    \/ alignment \notin {Pow2(i) : i \in 0..6}
    \/ alignment > ba

AlignmentAssertEffect ==
    /\ alast'.op = "Push" =>
          ~BadAlignment(allocs'[Len(allocs')].alignment, arena.BlockAlignment)
    /\ alast'.op = "Assert" =>
          /\ BadAlignment(alast'.alignment, arena.BlockAlignment)
          /\ subject' = "ArenaAborted"
          /\ arena' = arena
          /\ allocs' = allocs

\* An arena is in use only over no initial block or an aligned one; with a
\* misaligned one the program has stopped in Init.
InitAlignmentAsserted ==
    /\ subject = "Arena" =>
          (initial = NULL \/ initial % arena.BlockAlignment = 0)
    /\ (initial # NULL /\ initial % arena.BlockAlignment # 0) =>
          /\ subject = "ArenaAborted"
          /\ alast.op = "Assert"
          /\ arena.Block = ArenaInit(NULL, 64, 16).Block
          /\ allocs = <<>>

\* C22: a PushUninitialized whose alignment is zero, no power of two or above
\* BlockAlignment fails an assertion with the Mark and the chain as they were,
\* and every push that goes on has a valid alignment; Init with an initial
\* block that is no multiple of block_alignment fails an assertion.
AlignmentAsserts == []InitAlignmentAsserted /\ [][AlignmentAssertEffect]_vars

\* A push with an alignment above BlockAlignment has stopped an arena that had
\* pushed before.
AlignmentAssertsWitness ==
    /\ subject = "ArenaAborted"
    /\ alast.op = "Assert"
    /\ alast.alignment = 32
    /\ arena.BlockAlignment = 16
    /\ Len(allocs) >= 1
    /\ arena.Mark.Block # NULL

----------------------------------------------------------------------------
(* C23: when Add grows the table, and to what *)

\* The table after Add(k) on table t.
AddOf(t, k) == IF Kind = "Set" THEN SetAdd(t, k).t ELSE MapAdd(t, k).t

\* t2 has the slot count the growth rule gives an Add that starts on t.
GrowthRule(t, t2) ==
    IF 100 * (t.NumElems + 1) > 70 * t.NumSlots
    THEN t2.NumSlots = (IF t.NumSlots = 0 THEN 8 ELSE 2 * t.NumSlots)
    ELSE t2.NumSlots = t.NumSlots

\* C23: Add changes NumSlots exactly when 100 * (NumElems + 1) > 70 * NumSlots
\* on entry, to 8 from 0 and to twice the old count otherwise; this holds for
\* every Add (and every Set of a Map) that is made, and in every reachable
\* table for an Add of any key, present or absent.
AddGrowsByRule ==
    /\ [] (subject \in {"Set", "Map"} =>
              \A k \in Keys : GrowthRule(table, AddOf(table, k)))
    /\ [][last'.op \in {"Add", "Set"} => GrowthRule(table, table')]_vars

\* An Add of a key that was present has left a set of five keys in sixteen
\* slots, a count the set reaches only by growth from eight.
AddGrowsByRuleWitness ==
    /\ subject = "Set"
    /\ last.op = "Add" /\ ~last.ret
    /\ table.NumSlots = 16
    /\ table.NumElems = 5

----------------------------------------------------------------------------
(* C24: the slot count is a power of two or zero *)

PowersOfTwo == {Pow2(i) : i \in 0..(MaxSlotsLog + 3)}

SlotCountIsPow2OrZero ==
    subject \in {"Set", "Map", "SetAborted", "MapAborted"} =>
        table.NumSlots \in {0} \cup PowersOfTwo

\* A slot count Resize must not be given on the current table.
BadSlotCount(n) == n \notin ({0} \cup PowersOfTwo) \/ n < table.NumElems

ResizeRejects ==
    /\ last'.op \in {"Resize", "ResizeAssert"} =>
          \A n \in AnySlotCounts :
             ((DoSetResize(n) \/ DoMapResize(n)) /\ BadSlotCount(n)) =>
                 /\ last'.op = "ResizeAssert"
                 /\ subject' \in {"SetAborted", "MapAborted"}
                 /\ table' = table
    /\ last'.op = "ResizeAssert" =>
          /\ table' = table
          /\ \E n \in AnySlotCounts : BadSlotCount(n)
    /\ last'.op = "Resize" =>
          \E n \in AnySlotCounts :
             /\ ~BadSlotCount(n)
             /\ table'.NumSlots \in {n, 2 * n}

\* C24: in every reachable table state NumSlots is zero or a power of two; a
\* Resize with a slot count that is no power of two (nor zero) or is smaller
\* than NumElems fails an assertion, the table as it was.
SlotsPowerOfTwo == []SlotCountIsPow2OrZero /\ [][ResizeRejects]_vars

\* A Resize has stopped the program on a set that growth had taken to sixteen slots.
SlotsPowerOfTwoWitness ==
    /\ subject = "SetAborted"
    /\ last.op = "ResizeAssert"
    /\ table.NumSlots = 16
    /\ table.NumElems >= 5

----------------------------------------------------------------------------
(* C25: the slot arrays taken from the heap allocator *)

\* C25: between Init and Deinit the only slot array live is the one Data
\* points to (none while Data is null, which it is only with no slots): every
\* Resize has freed the array it replaced, once; after Deinit none is live; and
\* no address was freed that was not live.
SlotArrayFreedOnce ==
    /\ subject \in {"Set", "Map"} =>
          /\ table.Live = (IF table.Addr = NULL THEN {} ELSE {table.Addr})
          /\ table.NumSlots > 0 => table.Addr # NULL
          /\ table.BadFree = {}
    /\ subject \in {"SetDeinit", "MapDeinit"} =>
          /\ table.Live = {}
          /\ table.BadFree = {}

----------------------------------------------------------------------------
(* C26: where the repair of Remove leaves the keys of the run *)

\* The slot of set t that holds key x.
SlotOf(t, x) == CHOOSE i \in DOMAIN t.Data : t.Data[i] = x

RECURSIVE RunFrom(_, _, _), FirstNotOther(_, _, _, _)
\* The keys of the occupied slots from slot i on, up to the first empty slot
\* (n slots at most).
RunFrom(t, i, n) ==
    IF n = 0 \/ t.Data[i] = EmptyKey THEN {}
    ELSE {t.Data[i]} \cup RunFrom(t, (i + 1) % t.NumSlots, n - 1)

\* The first slot from slot i on, in probe order, that holds no key other than
\* x (-1: none among n slots).
FirstNotOther(t, x, i, n) ==
    IF n = 0 THEN -1
    ELSE IF t.Data[i] \in {EmptyKey, x} THEN i
    ELSE FirstNotOther(t, x, (i + 1) % t.NumSlots, n - 1)

\* The set of 8 slots to which a and then b were added, starting empty.
TwoAdded(a, b) == SetAdd(SetAdd(SetInit("Caller", 8), a).t, b).t

RepairEffect(k) ==
    /\ \A b \in SetKeys \ {k} :
          (k % 8 = b % 8 /\ table.Data = TwoAdded(k, b).Data) =>
              /\ SetHas(table', b)
              /\ table'.Data[k % 8] = b
    /\ \A x \in RunFrom(table, (SlotOf(table, k) + 1) % table.NumSlots,
                        table.NumSlots - 1) :
          /\ x \in {table'.Data[i] : i \in DOMAIN table'.Data}
          /\ SlotOf(table', x) =
                FirstNotOther(table', x, x % table'.NumSlots, table'.NumSlots)

\* C26: when a and b of one home slot are added in that order to an empty
\* 8-slot set and a is removed, Has(b) holds and b lies in slot a & mask; after
\* any Remove(k) of a key present, every key of the run that followed the slot
\* of k lies in the first slot, in probe order from its home slot, that holds
\* no other key.
RemoveShiftsBack ==
    [][(subject = "Set" /\ last'.op = "Remove" /\ last'.ret) =>
          \A k \in SetKeys : (SetHas(table, k) /\ DoSetRemove(k)) => RepairEffect(k)]_vars

\* The set after Add(a), Add(b), Remove(a) on 8 empty slots, a and b of one
\* home slot: the Remove moved one key, which now lies in its home slot.
RemoveShiftsBackWitness ==
    /\ subject = "Set"
    /\ last.op = "Remove" /\ last.ret /\ last.moved = 1
    /\ table.NumSlots = 8 /\ table.NumElems = 1
    /\ \E b \in SetKeys : b > 8 /\ table.Data[b % 8] = b

----------------------------------------------------------------------------
(* C27: Remove and the slot count *)

RemoveKeepsSlots ==
    /\ last'.op = "Remove" =>
          /\ table'.NumSlots = table.NumSlots
          /\ DOMAIN table'.Data = DOMAIN table.Data
          /\ table'.Addr = table.Addr
    /\ last'.op \in {"Add", "Set", "Remove"} =>
          table'.NumSlots >= table.NumSlots

\* C27: Remove leaves NumSlots and the slot array in place - none of its
\* re-insertions grows the table - and no Add, Set or Remove lowers NumSlots.
RemoveNeverResizes == [][RemoveKeepsSlots]_vars

\* A Remove has re-inserted two keys or more into a set that held 5 keys in 8
\* slots, the fullest an 8-slot table gets.
RemoveNeverResizesWitness ==
    /\ subject = "Set"
    /\ last.op = "Remove" /\ last.ret /\ last.moved >= 2
    /\ table.NumSlots = 8
    /\ table.NumElems = 4

----------------------------------------------------------------------------
(* C28: NumElems counts the occupied slots *)

\* The slots of table t of the given kind that hold a key.
Occupied(kind, t) == {i \in DOMAIN t.Data : KeyAt(kind, t, i) # EmptyKey}

\* NumElems of t is the number of its occupied slots, and no two of them hold
\* the same key.
Counted(kind, t) ==
    /\ t.NumElems = Cardinality(Occupied(kind, t))
    /\ \A i, j \in Occupied(kind, t) : KeyAt(kind, t, i) = KeyAt(kind, t, j) => i = j

RECURSIVE ShiftTrace(_, _, _)
\* The sets the backward-shift walk of DS_Set::Remove passes through, from the
\* set t in which slot index has just been emptied: before each eviction,
\* after it, and at the end.
ShiftTrace(t, mask, index) ==
    LET idx == BitAnd(index + 1, mask)
    IN IF t.Data[idx] = EmptyKey THEN <<t>>
       ELSE LET evicted == [t EXCEPT !.Data[idx] = EmptyKey, !.NumElems = @ - 1]
            IN <<t, evicted>> \o ShiftTrace(SetAdd(evicted, t.Data[idx]).t, mask, idx)

\* The sets Remove(k) passes through on set t, which holds k.
RemoveTrace(t, k) ==
    LET s == SlotOf(t, k)
    IN ShiftTrace([t EXCEPT !.Data[s] = EmptyKey, !.NumElems = @ - 1], t.NumSlots - 1, s)

RemoveCounts(t, k) ==
    LET trace == RemoveTrace(t, k)
    IN /\ trace[Len(trace)] = SetRemove(t, k).t
       /\ trace[1].NumElems = t.NumElems - 1
       /\ \A n \in 1..Len(trace) : Counted("Set", trace[n])
       /\ \A n \in 1..(Len(trace) - 1) :
             trace[n + 1].NumElems \in {trace[n].NumElems - 1, trace[n].NumElems + 1}

\* C28: between operations NumElems is the number of slots whose key is not
\* the sentinel and no key lies in two slots; inside a Remove, NumElems goes
\* down by one for the removed key and for each evicted neighbour and up by
\* one with each re-insertion, and counts the occupied slots at each point.
NumElemsCountsSlots ==
    subject \in {"Set", "Map", "SetAborted", "MapAborted"} =>
        /\ Counted(Kind, table)
        /\ subject = "Set" =>
              \A k \in SetKeys : SetHas(table, k) => RemoveCounts(table, k)

\* A Remove has evicted and re-inserted two keys or more of a set that keeps
\* three or more.
NumElemsCountsSlotsWitness ==
    /\ subject = "Set"
    /\ last.op = "Remove" /\ last.ret /\ last.moved >= 2
    /\ table.NumElems >= 3
    /\ \E k \in SetKeys : SetHas(table, k) /\ Len(RemoveTrace(table, k)) >= 5

----------------------------------------------------------------------------
(* C29: an empty slot wherever a probe loop runs *)

HasEmptySlot(kind, t) == \E i \in DOMAIN t.Data : KeyAt(kind, t, i) = EmptyKey

\* The number of slots a probe for key inspects on t, from the home slot of
\* the key to the first slot that is empty or holds the key; NumSlots + 1 if
\* no slot of t stops it.
ProbeSteps(kind, t, key) ==
    LET n == t.NumSlots
        stops == {d \in 0..(n - 1) : KeyAt(kind, t, (key + d) % n) \in {EmptyKey, key}}
    IN IF stops = {} THEN n + 1
       ELSE 1 + CHOOSE d \in stops : \A e \in stops : d <= e

\* A probe loop that runs on t ends within NumSlots steps, whatever the key.
Stops(kind, t) ==
    t.NumSlots > 0 =>
        /\ HasEmptySlot(kind, t)
        /\ \A k \in Keys : ProbeSteps(kind, t, k) <= t.NumSlots

RECURSIVE SetAddTables(_, _), SetResizeTables(_, _), SetResizeLoopTables(_, _, _, _),
          SetShiftTables(_, _, _)
\* The sets on which a probe loop runs in the course of Add(key) on set t: the
\* set Add probes, after the re-insertions of a Resize if it grows.
SetAddTables(t, key) ==
    IF 100 * (t.NumElems + 1) > 70 * t.NumSlots
    THEN LET n == IF t.NumSlots = 0 THEN 8 ELSE t.NumSlots * 2
         IN SetResizeTables(t, n) \cup {SetResize(t, n)}
    ELSE {t}

\* ... in the course of Resize(num_slots) on set t.
SetResizeTables(t, num_slots) ==
    IF num_slots > 0
    THEN SetResizeLoopTables([t EXCEPT !.Data = [i \in 0..(num_slots - 1) |-> EmptyKey],
                                       !.NumElems = 0, !.NumSlots = num_slots],
                             t.Data, t.NumSlots, 0)
    ELSE {}

SetResizeLoopTables(t, old_data, old_capacity, i) ==
    IF i >= old_capacity THEN {}
    ELSE IF old_data[i] = EmptyKey
    THEN SetResizeLoopTables(t, old_data, old_capacity, i + 1)
    ELSE SetAddTables(t, old_data[i])
            \cup SetResizeLoopTables(SetAdd(t, old_data[i]).t, old_data, old_capacity, i + 1)

\* ... in the course of the backward-shift walk of Remove, from the set t in
\* which slot index has just been emptied: the set at each step of the walk
\* and those of each re-insertion.
SetShiftTables(t, mask, index) ==
    LET idx == BitAnd(index + 1, mask)
    IN IF t.Data[idx] = EmptyKey THEN {t}
       ELSE LET evicted == [t EXCEPT !.Data[idx] = EmptyKey, !.NumElems = @ - 1]
            IN {t} \cup SetAddTables(evicted, t.Data[idx])
                   \cup SetShiftTables(SetAdd(evicted, t.Data[idx]).t, mask, idx)

\* ... in the course of Remove(k) on set t.
SetRemoveTables(t, k) ==
    IF t.NumSlots = 0 THEN {}
    ELSE IF \E i \in DOMAIN t.Data : t.Data[i] = k
    THEN {t} \cup SetShiftTables([t EXCEPT !.Data[SlotOf(t, k)] = EmptyKey,
                                           !.NumElems = @ - 1],
                                 t.NumSlots - 1, SlotOf(t, k))
    ELSE {t}

\* C29: a table with slots has an empty slot wherever a probe loop runs on it
\* - between operations (Has, FindPtr, Remove), on the table Add probes, at
\* each re-insertion of a Resize and at each step of the repair walk of a
\* Remove - so that each probe ends within NumSlots steps, and the repair walk
\* within NumSlots steps too.
ProbesTerminate ==
    subject \in {"Set", "Map"} =>
        /\ Stops(Kind, table)
        /\ subject = "Set" =>
              /\ \A k \in SetKeys :
                    /\ \A p \in SetAddTables(table, k) \cup SetRemoveTables(table, k) :
                          Stops("Set", p)
                    /\ SetHas(table, k) =>
                          Len(RemoveTrace(table, k)) <= 2 * table.NumSlots - 1
              /\ \A n \in SlotCounts :
                    n >= table.NumElems =>
                       \A p \in SetResizeTables(table, n) : Stops("Set", p)

\* A set of 4 keys in 8 slots, left by a Remove that had to repair a run, in
\* which the probe for some key inspects three slots or more.
ProbesTerminateWitness ==
    /\ subject = "Set"
    /\ table.NumSlots = 8 /\ table.NumElems = 4
    /\ last.op = "Remove" /\ last.moved >= 1
    /\ \E k \in SetKeys : ProbeSteps("Set", table, k) >= 3

----------------------------------------------------------------------------
(* C30: the slot count Resize and Init leave *)

\* What Resize(n), n permitted, leaves.
ResizeResult(n) ==
    /\ table'.NumSlots = (IF 100 * table.NumElems <= 70 * n THEN n ELSE 2 * n)
    /\ 100 * table.NumElems > 70 * n =>
          /\ \A k \in Keys : HasOf(table', k) <=> HasOf(table, k)
          /\ Counted(Kind, table')
          /\ table'.Addr \in table'.Live
          /\ table.Addr \notin table'.Live
          /\ table'.Live \ {table'.Addr} = table.Live \ {table.Addr}
          /\ table'.BadFree = table.BadFree

\* What Init(allocator, n) leaves.
InitResult ==
    last.op = "Init" =>
        \E n \in SlotCounts :
            /\ table = (IF subject = "Set" THEN SetInit(table.Allocator, n)
                        ELSE MapInit(table.Allocator, n))
            /\ table.NumSlots = n
            /\ table.NumElems = 0
            /\ table.Live = (IF n > 0 THEN {table.Addr} ELSE {})

\* C30: Resize(n), n a power of two or zero and n >= NumElems, and Init with n
\* slots leave NumSlots = n exactly when 100 * NumElems <= 70 * n; otherwise a
\* re-insertion grows the table and NumSlots is 2n on return, every element
\* present once, the old array and the array of n slots freed, the array of
\* 2n slots live.
ResizeSlotCount ==
    /\ [](subject \in {"Set", "Map"} => InitResult)
    /\ [][last'.op = "Resize" =>
             \A n \in AnySlotCounts :
                (DoSetResize(n) \/ DoMapResize(n)) => ResizeResult(n)]_vars

\* A Resize(8) of a set of 6 keys over the heap allocator has come back with
\* 16 slots.
ResizeSlotCountWitness ==
    /\ subject = "Set"
    /\ table.Allocator = "Heap"
    /\ last.op = "Resize"
    /\ table.NumSlots = 16
    /\ table.NumElems = 6

----------------------------------------------------------------------------
(* C31 *)

\* In this state Has, FindPtr, Find and Remove called with the key KEY{}
\* report absent and hand back the table as it is.
SentinelAbsent ==
    IF Kind = "Set"
    THEN /\ SetHas(table, EmptyKey) = FALSE
         /\ SetRemove(table, EmptyKey) = [t |-> table, removed |-> FALSE]
    ELSE /\ MapHas(table, EmptyKey) = FALSE
         /\ MapFindPtr(table, EmptyKey) = -1
         /\ \A old \in Values \cup {ZeroValue, Poison} :
               MapFind(table, EmptyKey, old) = [found |-> FALSE, value |-> old]
         /\ MapRemove(table, EmptyKey) = [t |-> table, removed |-> FALSE]

\* A call of Has, FindPtr, Find or Remove with the key KEY{} returns false
\* (NULL), leaves *value of Find as it was, changes nothing of the table and
\* does not stop the program.
SentinelLookupEffect ==
    (last' # last /\ "key" \in DOMAIN last')
        => /\ last'.key = EmptyKey
           /\ last'.op \in {"Has", "FindPtr", "Find", "Remove"}
           /\ last'.ret = FALSE
           /\ last'.value = last'.old
           /\ table' = table
           /\ abs' = abs
           /\ subject' = subject

\* C31: Has, Find, FindPtr and Remove called with the sentinel key KEY{}
\* report absent (false / NULL) and leave the table unchanged in every
\* reachable state, a table of zero slots included; none of them has a
\* failure path.
SentinelLookupsReportAbsent == []SentinelAbsent /\ [][SentinelLookupEffect]_vars

\* Remove(KEY{}) has returned on a set of eight slots whose probe from slot 0
\* passed two stored keys before it met an empty slot.
SentinelLookupsReportAbsentWitness ==
    /\ subject = "Set"
    /\ "key" \in DOMAIN last
    /\ last.op = "Remove"
    /\ table.NumSlots = 8
    /\ table.Data[0] # EmptyKey
    /\ table.Data[1] # EmptyKey
    /\ table.Data[2] = EmptyKey

----------------------------------------------------------------------------
(* C32 *)

\* The blocks the arena owns: the block its caller supplied, if any, and the
\* allocations of the backing allocator that are not freed.
OwnedBlocks ==
    (IF initial # NULL THEN {initial} ELSE {}) \cup DOMAIN arena.Live

\* The chain from FirstBlock holds each owned block once and nothing else, the
\* flag of a block tells whether the backing allocator gave it, nothing was
\* freed that was not live, and the cursor and every mark the caller holds
\* name no block or a block of the chain.
ChainIsOwnedBlocks ==
    (subject = "Arena" /\ arena.Alive) =>
        /\ Blocks(arena) = OwnedBlocks
        /\ Len(Chain(arena)) = Cardinality(OwnedBlocks)
        /\ \A b \in Blocks(arena) :
              arena.Block[b].AllocatedFromBackingAllocator = (b \in DOMAIN arena.Live)
        /\ arena.BadFree = {}
        /\ arena.Mark.Block = NULL \/ arena.Mark.Block \in Blocks(arena)
        /\ \A i \in 1..Len(marks) :
              marks[i].mark.Block = NULL \/ marks[i].mark.Block \in Blocks(arena)

\* From one Reset to the next no block leaves the chain, so a mark taken
\* since the last Reset names no block or a block of the chain.
ChainKeptUntilReset ==
    (subject = "Arena" /\ arena.Alive /\ alast'.op \notin {"Reset", "Deinit"})
        => /\ Blocks(arena) \subseteq Blocks(arena')
           /\ arena.Mark.Block = NULL \/ arena.Mark.Block \in Blocks(arena')

\* C32: between Init and Deinit the blocks reachable from FirstBlock are
\* exactly the caller-supplied initial block (if any) and the blocks obtained
\* from the backing allocator and not yet freed; no block is freed twice, no
\* unfreed block becomes unreachable, and Mark.Block is null or a block of
\* the chain while SetMark is called with a null mark or a mark taken since
\* the last Reset.
ChainIsLiveBlocks == []ChainIsOwnedBlocks /\ [][ChainKeptUntilReset]_vars

\* SetMark has rewound the cursor to the middle block of a chain of three that
\* starts with the caller's block; the block after it is still on the chain.
ChainIsLiveBlocksWitness ==
    /\ subject = "Arena"
    /\ arena.Alive
    /\ initial # NULL
    /\ alast.op = "SetMark"
    /\ Len(Chain(arena)) = 3
    /\ arena.Mark.Block = Chain(arena)[2]
    /\ Cardinality(DOMAIN arena.Live) = 2

====
